---------------------------- MODULE Spec2Model ----------------------------
(***************************************************************************)
(* Stepper motion controller (stepper_motion_controller.c), its two ramp   *)
(* generators (stepper_ramp_constant.c, stepper_ramp_trapezoidal.c) and    *)
(* the wrapper device that connects them to a hardware stepper.            *)
(*                                                                         *)
(* Every API call and the timing-source callback is one atomic action.     *)
(* Intervals are nanoseconds, as in the source.  TLC's integers are 32-bit *)
(* signed, so the 64-bit arithmetic of avr446_start_interval and isqrt is  *)
(* carried out on numbers held as six limbs of 15 bits (least             *)
(* significant first); everything else stays below 2^31 for the profiles   *)
(* of this model, and TLC stops with an overflow error if it does not.     *)
(***************************************************************************)
EXTENDS Integers, Sequences, FiniteSets, TLC

(***************************************************************************)
(* uint64_t arithmetic                                                     *)
(***************************************************************************)
LIMB == 2^15

U64_TOP == 2^4

u64_zero == <<0, 0, 0, 0, 0, 0>>

\* a number below 2^31 as a uint64_t
u64_from(n) == <<n % LIMB, (n \div LIMB) % LIMB, n \div (LIMB * LIMB), 0, 0, 0>>

\* reduction modulo 2^64
u64_wrap(a) == [a EXCEPT ![5] = a[5] % U64_TOP, ![6] = 0]

\* the conversion (uint32_t)a
u64_to_u32(a) == <<a[1], a[2], a[3] % 4, 0, 0, 0>>

RECURSIVE u64_lt_from(_, _, _)
u64_lt_from(a, b, i) ==
    IF i = 0 THEN FALSE
    ELSE IF a[i] # b[i] THEN a[i] < b[i]
    ELSE u64_lt_from(a, b, i - 1)

u64_lt(a, b) == u64_lt_from(a, b, 6)

\* a + b on six limbs (no reduction)
u64_add_raw(a, b) ==
    LET s1 == a[1] + b[1]
        s2 == a[2] + b[2] + (s1 \div LIMB)
        s3 == a[3] + b[3] + (s2 \div LIMB)
        s4 == a[4] + b[4] + (s3 \div LIMB)
        s5 == a[5] + b[5] + (s4 \div LIMB)
        s6 == a[6] + b[6] + (s5 \div LIMB)
    IN <<s1 % LIMB, s2 % LIMB, s3 % LIMB, s4 % LIMB, s5 % LIMB, s6 % LIMB>>

\* a + b modulo 2^64
u64_add(a, b) == u64_wrap(u64_add_raw(a, b))

\* a - b for a >= b
u64_sub(a, b) ==
    LET d1 == a[1] - b[1]
        d2 == a[2] - b[2] - (IF d1 < 0 THEN 1 ELSE 0)
        d3 == a[3] - b[3] - (IF d2 < 0 THEN 1 ELSE 0)
        d4 == a[4] - b[4] - (IF d3 < 0 THEN 1 ELSE 0)
        d5 == a[5] - b[5] - (IF d4 < 0 THEN 1 ELSE 0)
        d6 == a[6] - b[6] - (IF d5 < 0 THEN 1 ELSE 0)
    IN <<d1 % LIMB, d2 % LIMB, d3 % LIMB, d4 % LIMB, d5 % LIMB, d6 % LIMB>>

\* a / 2
u64_half(a) ==
    [i \in 1..6 |->
        (a[i] \div 2) + (IF i < 6 THEN (a[i + 1] % 2) * (LIMB \div 2) ELSE 0)]

\* a * m for one limb m, on six limbs
u64_mul_limb(a, m) ==
    LET p1 == a[1] * m
        p2 == a[2] * m + (p1 \div LIMB)
        p3 == a[3] * m + (p2 \div LIMB)
        p4 == a[4] * m + (p3 \div LIMB)
        p5 == a[5] * m + (p4 \div LIMB)
        p6 == a[6] * m + (p5 \div LIMB)
    IN <<p1 % LIMB, p2 % LIMB, p3 % LIMB, p4 % LIMB, p5 % LIMB, p6 % LIMB>>

\* a * LIMB^k on six limbs
u64_shift_limbs(a, k) == [i \in 1..6 |-> IF i > k THEN a[i - k] ELSE 0]

RECURSIVE u64_mul_from(_, _, _)
u64_mul_from(a, b, k) ==
    IF k > 6 THEN u64_zero
    ELSE u64_add_raw(u64_shift_limbs(u64_mul_limb(a, b[k]), k - 1),
                     u64_mul_from(a, b, k + 1))

\* a * b modulo 2^64
u64_mul(a, b) == u64_wrap(u64_mul_from(a, b, 1))

\* the largest digit m + j, 0 <= j < 2 * bit, with b * (m + j) <= r
RECURSIVE u64_quotient_digit(_, _, _, _)
u64_quotient_digit(r, b, m, bit) ==
    IF bit = 0 THEN m
    ELSE IF u64_lt(r, u64_mul_limb(b, m + bit))
         THEN u64_quotient_digit(r, b, m, bit \div 2)
         ELSE u64_quotient_digit(r, b, m + bit, bit \div 2)

\* long division of a by b, limb i of a down to limb 1; qr holds the quotient
\* and the remainder of the limbs above limb i
RECURSIVE u64_divmod_from(_, _, _, _)
u64_divmod_from(a, b, i, qr) ==
    IF i = 0 THEN qr
    ELSE LET r1 == u64_add_raw(u64_shift_limbs(qr.r, 1), u64_from(a[i]))
             digit == u64_quotient_digit(r1, b, 0, LIMB \div 2)
         IN u64_divmod_from(a, b, i - 1,
                [q |-> [qr.q EXCEPT ![i] = digit],
                 r |-> u64_sub(r1, u64_mul_limb(b, digit))])

\* a / b for b # 0
u64_div(a, b) == u64_divmod_from(a, b, 5, [q |-> u64_zero, r |-> u64_zero]).q

\* the number hi * 10^9 + lo, for writing constants above 2^31
u64_lit(hi, lo) == u64_add(u64_mul(u64_from(hi), u64_from(1000000000)), u64_from(lo))

(***************************************************************************)
(* stepper_ramp_trapezoidal.c: AVR446 helpers                              *)
(***************************************************************************)
NSEC_PER_SEC == 1000000000

\* the while loop of isqrt: x = y; y = (x + n / x) / 2, with its division by
\* zero (undefined behaviour) marked
RECURSIVE isqrt_loop(_, _, _)
isqrt_loop(n, x, y) ==
    IF u64_lt(y, x)
    THEN IF y = u64_zero
         THEN "division by zero"
         ELSE isqrt_loop(n, y, u64_half(u64_add(y, u64_div(n, y))))
    ELSE u64_to_u32(x)

isqrt(n) ==
    IF u64_lt(n, u64_from(2))
    THEN u64_to_u32(n)
    ELSE isqrt_loop(n, n, u64_half(u64_add(n, u64_from(1))))

\* the while loop of isqrt comes to divide by x = 0
RECURSIVE isqrt_loop_divides_by_zero(_, _, _)
isqrt_loop_divides_by_zero(n, x, y) ==
    /\ u64_lt(y, x)
    /\ \/ y = u64_zero
       \/ isqrt_loop_divides_by_zero(n, y, u64_half(u64_add(y, u64_div(n, y))))

isqrt_divides_by_zero(n) ==
    /\ ~u64_lt(n, u64_from(2))
    /\ isqrt_loop_divides_by_zero(n, n, u64_half(u64_add(n, u64_from(1))))

factor == u64_lit(3, 37000499)

\* NSEC_PER_SEC * 676 / 1000 * isqrt(2 * factor * factor / acceleration) / factor
avr446_start_interval(acceleration) ==
    IF acceleration = 0
    THEN 0
    ELSE LET a == u64_div(
                     u64_mul(
                       u64_div(u64_mul(u64_from(NSEC_PER_SEC), u64_from(676)),
                               u64_from(1000)),
                       isqrt(u64_div(u64_mul(u64_mul(u64_from(2), factor), factor),
                                     u64_from(acceleration)))),
                     factor)
         IN a[1] + LIMB * a[2] + LIMB * LIMB * a[3]

(***************************************************************************)
(* int32_t and uint32_t                                                    *)
(***************************************************************************)
INT32_MAX == 2147483647

EINVAL == 22

INT32_MIN == -INT32_MAX - 1

\* uint32_t values are integers congruent modulo 2^32 to the value of the code:
\* a value v below 2^31 is v itself and a value of 2^31 or more is v - 2^32, a
\* negative number, so that the counter 2^32 - 1 of the code is the -1 of the
\* model.  TLC's integers hold every such number.
\* a - b in uint32_t, wrapping around at either end: a difference of 2^31 or
\* more is written 2^32 lower and one below -2^31 is written 2^32 higher, in
\* steps that stay within TLC's integers
u32_sub(a, b) ==
    IF a >= 0 /\ b < 0 /\ a > INT32_MAX + b
    THEN ((((a - INT32_MAX) - 1) - b) - INT32_MAX) - 1
    ELSE IF a < 0 /\ b >= 0 /\ a < INT32_MIN + b
    THEN ((((a + INT32_MAX) + 1) - b) + INT32_MAX) + 1
    ELSE a - b

\* a < b between two uint32_t values: a wrapped (negative) number is the larger
u32_lt(a, b) == IF (a < 0) = (b < 0) THEN a < b ELSE b < 0

\* x > 0 for a uint32_t value
u32_positive(x) == x # 0

\* a + b in uint32_t, wrapping around, and a * b for products below 2^31 (TLC
\* stops otherwise)
u32_add(a, b) ==
    IF b = INT32_MIN
    THEN IF a < 0 THEN (a + INT32_MAX) + 1 ELSE (a - INT32_MAX) - 1
    ELSE u32_sub(a, -b)

u32_mul(a, b) == a * b

SIGN(x) == IF x < 0 THEN -1 ELSE 1

abs(x) == IF x < 0 THEN -x ELSE x

(***************************************************************************)
(* stepper_ramp_trapezoidal.c                                              *)
(***************************************************************************)
\* the profiles of the model: acceleration_rate and deceleration_rate in
\* steps/s^2, run_interval in ns
TrapezoidalProfiles ==
    { [acceleration_rate |-> 50, run_interval |-> 100000000, deceleration_rate |-> 60],
      [acceleration_rate |-> 50, run_interval |-> 100000000, deceleration_rate |-> 50] }

\* profiles with a rate of zero, which the ramp cannot compute
ZeroRateProfiles ==
    { [acceleration_rate |-> 50, run_interval |-> 100000000, deceleration_rate |-> 0],
      [acceleration_rate |-> 0, run_interval |-> 100000000, deceleration_rate |-> 50] }

\* the profiles the ramp is exercised with on its own: the two above, one that
\* brakes far more gently than it accelerates, the same at half the velocity,
\* and two of twice the velocity, one of them braking twice as hard as it
\* accelerates
RampProfiles ==
    TrapezoidalProfiles
        \cup { [acceleration_rate |-> 50, run_interval |-> 100000000,
                deceleration_rate |-> 10],
               [acceleration_rate |-> 50, run_interval |-> 200000000,
                deceleration_rate |-> 10],
               [acceleration_rate |-> 50, run_interval |-> 50000000,
                deceleration_rate |-> 50],
               [acceleration_rate |-> 50, run_interval |-> 50000000,
                deceleration_rate |-> 100] }

ProfileRates ==
    {p.acceleration_rate : p \in RampProfiles \cup ZeroRateProfiles}
        \cup {p.deceleration_rate : p \in RampProfiles \cup ZeroRateProfiles}

\* avr446_start_interval of every rate of the model, computed once
StartIntervalOf == [rate \in ProfileRates |-> avr446_start_interval(rate)]

\* STEPPER_RAMP_TRAPEZOIDAL_DEFINE: the data of the ramp at start-up
trapezoidal_data_init ==
    [pre_decel_steps_left |-> 0, accel_steps_left |-> 0, run_steps_left |-> 0,
     decel_steps_left |-> 0, run_interval |-> 0, first_acceleration_interval |-> 0,
     last_deceleration_interval |-> 0, interval_calculation_rest |-> 0,
     acceleration_idx |-> 0, current_interval |-> 0]

\* a / b in uint32_t.  A division by zero is undefined: it traps where the
\* processor traps it (prepare_move_divides_by_zero below), and yields 0 where
\* the processor's divide instruction does (Cortex-M with the trap off,
\* AArch64).  A quotient of all ones (RISC-V) is a third outcome, a plan of
\* 2^32 - 1 steps, which is beyond the integers of the model.
u32_div(a, b) == IF b = 0 THEN 0 ELSE a \div b

avr446_acceleration_steps_needed(interval_in_ns, acceleration) ==
    IF interval_in_ns = 0
    THEN 0
    ELSE u32_div(u32_mul(NSEC_PER_SEC \div interval_in_ns, NSEC_PER_SEC \div interval_in_ns),
                 u32_mul(acceleration, 2))

\* avr446_acceleration_steps_needed divides by acceleration * 2 = 0
avr446_divides_by_zero(interval_in_ns, acceleration) ==
    interval_in_ns # 0 /\ acceleration = 0

avr446_calculate_next_accel_step(data) ==
    LET d1 == [data EXCEPT !.accel_steps_left = @ - 1, !.acceleration_idx = @ + 1]
        numerator == 2 * d1.current_interval + d1.interval_calculation_rest
        denominator == u32_mul(4, d1.acceleration_idx)
    IN IF data.acceleration_idx = 0
       THEN [d1 EXCEPT !.interval_calculation_rest = 0,
                       !.current_interval = d1.first_acceleration_interval]
       ELSE [d1 EXCEPT !.interval_calculation_rest = numerator % denominator,
                       !.current_interval = @ - (numerator \div denominator)]

avr446_calculate_next_pre_decel_step(data) ==
    LET numerator == 2 * data.current_interval + data.interval_calculation_rest
        denominator ==
            u32_mul(4, u32_add(data.pre_decel_steps_left, data.decel_steps_left))
    IN [data EXCEPT !.interval_calculation_rest = numerator % denominator,
                    !.current_interval = @ + (numerator \div denominator),
                    !.pre_decel_steps_left = @ - 1]

avr446_calculate_next_decel_step(data) ==
    LET d1 == [data EXCEPT !.decel_steps_left = @ - 1]
        numerator == 2 * d1.current_interval + d1.interval_calculation_rest
        denominator == u32_mul(4, d1.decel_steps_left)
    IN IF d1.decel_steps_left = 0
       THEN [d1 EXCEPT !.interval_calculation_rest = 0,
                       !.current_interval = d1.last_deceleration_interval]
       ELSE [d1 EXCEPT !.interval_calculation_rest = numerator % denominator,
                       !.current_interval = @ + (numerator \div denominator)]

\* prepare_move, lines 165-185: the requested velocity is slower than the
\* current one
trapezoidal_plan_slow_down(data, step_count, stop_lim, accel_lim, decel_lim) ==
    LET pre_decel == u32_sub(stop_lim, decel_lim)
        total_decel_steps == u32_add(pre_decel, data.decel_steps_left)
    IN [data EXCEPT !.pre_decel_steps_left = pre_decel,
                    !.accel_steps_left = 0,
                    !.run_steps_left = IF u32_lt(total_decel_steps, step_count)
                                       THEN u32_sub(step_count, total_decel_steps)
                                       ELSE 0,
                    !.acceleration_idx = accel_lim,
                    !.decel_steps_left = decel_lim]

\* prepare_move, lines 187-207: the requested velocity is faster than the
\* current one, or the motor is at rest
trapezoidal_plan_speed_up(data, profile, step_count, stop_lim, accel_lim, decel_lim) ==
    LET accel0 == u32_sub(accel_lim, stop_lim)
        short == ~u32_lt(u32_add(accel0, decel_lim), step_count)
        decel == IF short
                 THEN u32_div(u32_mul(step_count, profile.acceleration_rate),
                              u32_add(profile.deceleration_rate, profile.acceleration_rate))
                 ELSE decel_lim
        accel == IF short THEN u32_sub(step_count, decel) ELSE accel0
    IN [data EXCEPT !.pre_decel_steps_left = 0,
                    !.accel_steps_left = accel,
                    !.decel_steps_left = decel,
                    !.run_steps_left = u32_sub(u32_sub(step_count, accel), decel),
                    !.acceleration_idx = 0]

\* prepare_move, lines 209-220: the run interval is taken over and the planned
\* steps are counted
trapezoidal_plan_total(data, profile) ==
    [data |-> [data EXCEPT !.run_interval = profile.run_interval],
     ret |-> u32_add(u32_add(u32_add(data.pre_decel_steps_left, data.accel_steps_left),
                             data.run_steps_left), data.decel_steps_left)]

\* prepare_move, line 187: the second branch, on the data the first one left
trapezoidal_plan_second(data, profile, step_count, stop_lim, accel_lim, decel_lim) ==
    trapezoidal_plan_total(
        IF data.current_interval = 0 \/ data.current_interval > profile.run_interval
        THEN trapezoidal_plan_speed_up(data, profile, step_count, stop_lim, accel_lim,
                                       decel_lim)
        ELSE data,
        profile)

\* prepare_move, line 165: the first branch
trapezoidal_plan_first(data, profile, step_count, stop_lim, accel_lim, decel_lim) ==
    trapezoidal_plan_second(
        IF data.current_interval # 0 /\ data.current_interval < profile.run_interval
        THEN trapezoidal_plan_slow_down(data, step_count, stop_lim, accel_lim, decel_lim)
        ELSE data,
        profile, step_count, stop_lim, accel_lim, decel_lim)

\* prepare_move, lines 154-162: one of the three calls of
\* avr446_acceleration_steps_needed divides by zero
prepare_move_divides_by_zero(data, profile) ==
    \/ avr446_divides_by_zero(data.current_interval, profile.deceleration_rate)
    \/ avr446_divides_by_zero(profile.run_interval, profile.acceleration_rate)
    \/ avr446_divides_by_zero(profile.run_interval, profile.deceleration_rate)

\* prepare_move of the trapezoidal ramp: the new data and the returned count
trapezoidal_prepare_move(data, profile, step_count) ==
    trapezoidal_plan_first(
        [data EXCEPT
           !.first_acceleration_interval = StartIntervalOf[profile.acceleration_rate],
           !.last_deceleration_interval = StartIntervalOf[profile.deceleration_rate]],
        profile, step_count,
        avr446_acceleration_steps_needed(data.current_interval, profile.deceleration_rate),
        avr446_acceleration_steps_needed(profile.run_interval, profile.acceleration_rate),
        avr446_acceleration_steps_needed(profile.run_interval, profile.deceleration_rate))

\* prepare_stop that plans one step more than it reports
trapezoidal_prepare_stop_long(data, profile) ==
    [data |-> [data EXCEPT
                 !.pre_decel_steps_left = 0,
                 !.accel_steps_left = 0,
                 !.run_steps_left = 0,
                 !.run_interval = 0,
                 !.decel_steps_left =
                     avr446_acceleration_steps_needed(data.current_interval,
                                                      profile.deceleration_rate) + 1],
     ret |-> avr446_acceleration_steps_needed(data.current_interval,
                                              profile.deceleration_rate)]

\* prepare_stop, lines 242-251: the deceleration is planned
trapezoidal_plan_stop(data, deceleration_steps) ==
    [data |-> [data EXCEPT !.pre_decel_steps_left = 0,
                           !.accel_steps_left = 0,
                           !.run_steps_left = 0,
                           !.run_interval = 0,
                           !.decel_steps_left = deceleration_steps],
     ret |-> deceleration_steps]

\* prepare_stop of the trapezoidal ramp.  It returns uint64_t: a value of that
\* type is written as an integer congruent to it modulo 2^64, so that -EINVAL
\* stands for the 2^64 - 22 that return -EINVAL yields.
trapezoidal_prepare_stop(data, profile) ==
    IF profile.deceleration_rate = 0
    THEN [data |-> data, ret |-> -EINVAL]
    ELSE trapezoidal_plan_stop(
             data,
             avr446_acceleration_steps_needed(data.current_interval,
                                              profile.deceleration_rate))

\* get_next_interval, line 273: return data->current_interval
trapezoidal_current_interval(data) == [data |-> data, ret |-> data.current_interval]

\* get_next_interval of the trapezoidal ramp: the new data and the interval
trapezoidal_get_next_interval(data) ==
    trapezoidal_current_interval(
        IF u32_positive(data.pre_decel_steps_left)
        THEN avr446_calculate_next_pre_decel_step(data)
        ELSE IF u32_positive(data.accel_steps_left)
        THEN avr446_calculate_next_accel_step(data)
        ELSE IF u32_positive(data.run_steps_left)
        THEN [data EXCEPT !.run_steps_left = @ - 1,
                          !.current_interval = data.run_interval]
        ELSE IF u32_positive(data.decel_steps_left)
        THEN avr446_calculate_next_decel_step(data)
        ELSE [data EXCEPT !.current_interval = 0])

(***************************************************************************)
(* stepper_ramp_constant.c                                                 *)
(***************************************************************************)
\* STEPPER_RAMP_CONSTANT_DEFINE(name, interval)
constant_profile == [interval_ns |-> 1000000]

constant_data_init == [interval_ns |-> constant_profile.interval_ns, steps_left |-> 0]

constant_prepare_move(data, profile, step_count) ==
    [data |-> [data EXCEPT !.steps_left = step_count,
                           !.interval_ns = profile.interval_ns],
     ret |-> step_count]

\* prepare_stop that leaves the steps of the move in the plan
constant_prepare_stop_keeping(data) == [data |-> data, ret |-> 0]

constant_prepare_stop(data) ==
    [data |-> [data EXCEPT !.steps_left = 0], ret |-> 0]

\* get_next_interval that tests steps_left > 1: the last step is not handed out
constant_get_next_interval_early(data) ==
    IF data.steps_left > 1
    THEN [data |-> [data EXCEPT !.steps_left = @ - 1], ret |-> data.interval_ns]
    ELSE [data |-> data, ret |-> 0]

constant_get_next_interval(data) ==
    IF data.steps_left > 0
    THEN [data |-> [data EXCEPT !.steps_left = @ - 1], ret |-> data.interval_ns]
    ELSE [data |-> data, ret |-> 0]
(***************************************************************************)
(* Bounds of the model                                                     *)
(***************************************************************************)
\* move_by is called with -MaxMove .. MaxMove
MaxMove == 3

\* API calls in one behaviour
MaxCmds == 4

\* ticks of the timing source after one API call
MaxTicks == 6

\* failing hardware steps in one behaviour
MaxFail == 1

(***************************************************************************)
(* State                                                                   *)
(***************************************************************************)
VARIABLES
    ramp,                     \* data->ramp: "NULL", "constant" or "trapezoidal"
    direction,                \* data->direction
    relative_target_position, \* data->relative_target_position
    timing_interval,          \* the timing source: get_interval(), 0 when disarmed
    constant_data,            \* struct stepper_ramp_constant_data
    trapezoidal_data,         \* struct stepper_ramp_trapezoidal_data
    trapezoidal_profile,      \* struct stepper_ramp_trapezoidal_profile
    current_direction,        \* wrapper data->current_direction
    event_callback,           \* wrapper data->event_callback is set
    faulted,                  \* a NULL ramp was dereferenced
    world,                    \* what the hardware and the subscriber saw since the last call
    obs,                      \* the last API call and the state it was made in
    ncmds,                    \* API calls so far
    nfail,                    \* failed hardware steps so far
    position,                 \* the position counter of set_position and get_position
    div0_traps,               \* the processor traps a division by zero
    stepper_enabled,          \* config->stepper_dev is enabled
    race                      \* the handlers in flight and their local variables

vars == <<ramp, direction, relative_target_position, timing_interval, constant_data,
          trapezoidal_data, trapezoidal_profile, current_direction, event_callback,
          faulted, world, obs, ncmds, nfail, position, div0_traps, stepper_enabled,
          race>>

STEPPER_DIRECTION_NEGATIVE == -1

STEPPER_DIRECTION_POSITIVE == 1

STEPPER_EVENT_STEPS_COMPLETED == "STEPS_COMPLETED"

STEPPER_EVENT_STOPPED == "STOPPED"

\* the program state as one record, for the handlers below.  out is what left
\* the program: steps made by the hardware in each direction, events handed to
\* wrapper_event_callback, events handed on to the subscriber, the count the
\* ramp returned to the last move_by or stop, the number of positive intervals
\* get_next_interval returned to the controller, that number at each 0 it
\* returned, whether a division by zero trapped, and the events the hardware
\* stepper raised while the controller had a subscriber.
State ==
    [ramp |-> ramp, direction |-> direction,
     relative_target_position |-> relative_target_position,
     timing_interval |-> timing_interval, constant_data |-> constant_data,
     trapezoidal_data |-> trapezoidal_data, trapezoidal_profile |-> trapezoidal_profile,
     current_direction |-> current_direction, event_callback |-> event_callback,
     position |-> position, div0_traps |-> div0_traps,
     stepper_enabled |-> stepper_enabled, race |-> race, out |-> world]

Commit(s) ==
    /\ ramp' = s.ramp
    /\ direction' = s.direction
    /\ relative_target_position' = s.relative_target_position
    /\ timing_interval' = s.timing_interval
    /\ constant_data' = s.constant_data
    /\ trapezoidal_data' = s.trapezoidal_data
    /\ trapezoidal_profile' = s.trapezoidal_profile
    /\ current_direction' = s.current_direction
    /\ event_callback' = s.event_callback
    /\ position' = s.position
    /\ div0_traps' = s.div0_traps
    /\ stepper_enabled' = s.stepper_enabled
    /\ race' = s.race
    /\ world' = s.out

\* no handler is in flight.  tick_pc is where stepper_handle_timing_signal
\* stands ("stepped" after perform_step, "read" after line 39 of
\* calculate_next_interval), next_interval its local variable; call_pc is where
\* stop stands ("planned" after line 214), count its stop_steps_count.
\* intruded: a handler ran between two steps of the other.  overtaken: a
\* mutator planned and armed the timer after the tick handler in flight had
\* read its interval.
\* depth: how many K_SPINLOCK sections of data->lock the running handler is
\* inside.  nested: the handler entered one while inside another.  smp: the
\* build is a multiprocessor one, where k_spin_lock spins until the lock is
\* free.  hung: a handler spins on the lock it holds itself.
race_init ==
    [tick_pc |-> "idle", next_interval |-> 0, call_pc |-> "idle", count |-> 0,
     intruded |-> FALSE, overtaken |-> FALSE, depth |-> 0, nested |-> FALSE,
     smp |-> FALSE, hung |-> FALSE]

world_init ==
    [fwd |-> 0, bwd |-> 0, events |-> <<>>, delivered |-> <<>>, count |-> 0,
     intervals |-> 0, zeros |-> <<>>, trap |-> FALSE, raised |-> <<>>]

(***************************************************************************)
(* Timing source (stepper_timing_source.h is not among the sources)        *)
(***************************************************************************)
timing_source_start(s, interval) == [s EXCEPT !.timing_interval = interval]

timing_source_stop(s) == [s EXCEPT !.timing_interval = 0]

timing_source_get_interval(s) == s.timing_interval

(***************************************************************************)
(* stepper_motion_controller_wrapper.c                                     *)
(***************************************************************************)
\* stepper_step(config->stepper_dev, data->current_direction); ok is whether
\* the hardware made the step
wrapper_step_callback(s, ok) ==
    [s |-> IF ~ok THEN s
           ELSE IF s.current_direction = STEPPER_DIRECTION_POSITIVE
           THEN [s EXCEPT !.out.fwd = @ + 1]
           ELSE [s EXCEPT !.out.bwd = @ + 1],
     ret |-> IF ok THEN 0 ELSE -1]

wrapper_set_direction_callback(s, dir) == [s EXCEPT !.current_direction = dir]

wrapper_event_callback(s, event) ==
    [s EXCEPT !.out.events = Append(@, event),
              !.out.delivered = IF s.event_callback THEN Append(@, event) ELSE @]

wrapper_stepper_motion_set_event_callback(s, callback) ==
    [s EXCEPT !.event_callback = callback]

\* stepper_disable(config->stepper_dev): the hardware stepper cancels its
\* movement and de-energizes the coils.  The wrapper has no disable of its own
\* and is not told: the data of the controller and the timing source are as
\* they were.
stepper_disable(s) == [s EXCEPT !.stepper_enabled = FALSE]

\* the events of enum stepper_event that only the hardware stepper raises
HardwareEvents ==
    {"STALL_DETECTED", "LEFT_END_STOP_DETECTED", "RIGHT_END_STOP_DETECTED",
     "FAULT_DETECTED"}

\* the hardware stepper raises event, as a wrapper would see it that had
\* registered wrapper_event_callback with stepper_set_event_callback
stepper_event_raised_forwarded(s, event) ==
    wrapper_event_callback(
        [s EXCEPT !.out.raised = IF s.event_callback THEN Append(@, event) ELSE @],
        event)

\* the hardware stepper raises event: stepper_motion_controller_wrapper_init
\* has registered no callback with config->stepper_dev, and nothing of the
\* wrapper is called
stepper_event_raised(s, event) ==
    [s EXCEPT !.out.raised = IF s.event_callback THEN Append(@, event) ELSE @]

(***************************************************************************)
(* stepper_ramp.h: calls through ramp->api                                 *)
(***************************************************************************)
\* ramp->api->f(ramp, ...) of the constant ramp: its data is written back
constant_ramp_call(s, r) == [s |-> [s EXCEPT !.constant_data = r.data], ret |-> r.ret]

\* ramp->api->f(ramp, ...) of the trapezoidal ramp: its data is written back
trapezoidal_ramp_call(s, r) ==
    [s |-> [s EXCEPT !.trapezoidal_data = r.data], ret |-> r.ret]

stepper_ramp_get_next_interval(s) ==
    IF s.ramp = "constant"
    THEN constant_ramp_call(s, constant_get_next_interval(s.constant_data))
    ELSE trapezoidal_ramp_call(s, trapezoidal_get_next_interval(s.trapezoidal_data))

stepper_ramp_prepare_move(s, step_count) ==
    IF s.ramp = "constant"
    THEN constant_ramp_call(
             s, constant_prepare_move(s.constant_data, constant_profile, step_count))
    ELSE IF /\ s.div0_traps
            /\ prepare_move_divides_by_zero(s.trapezoidal_data, s.trapezoidal_profile)
    THEN [s |-> [s EXCEPT !.out.trap = TRUE], ret |-> 0]
    ELSE trapezoidal_ramp_call(
             s, trapezoidal_prepare_move(s.trapezoidal_data, s.trapezoidal_profile,
                                         step_count))

stepper_ramp_prepare_stop(s) ==
    IF s.ramp = "constant"
    THEN constant_ramp_call(s, constant_prepare_stop(s.constant_data))
    ELSE trapezoidal_ramp_call(
             s, trapezoidal_prepare_stop(s.trapezoidal_data, s.trapezoidal_profile))

(***************************************************************************)
(* stepper_motion_controller.c                                             *)
(***************************************************************************)
\* abs() of an int32_t, passed on as uint32_t.  abs(INT32_MIN) is undefined;
\* builds return INT32_MIN, which is 2^31 as uint32_t and above TLC's integers.
\* The model plans 2^31 - 1 steps there: the two differ only after 2^31 - 1
\* ticks.
abs_u32(x) == IF x = INT32_MIN THEN INT32_MAX ELSE abs(x)

\* set_direction that does not tell the hardware
stepper_motion_controller_set_direction_local(s, dir) == [s EXCEPT !.direction = dir]

stepper_motion_controller_set_direction(s, dir) ==
    wrapper_set_direction_callback([s EXCEPT !.direction = dir], dir)

\* x > 0 for a uint64_t x, written as an integer congruent to it modulo 2^64
u64_positive(x) == x # 0

\* calculate_next_interval, lines 41 and 66: timing_source->api->start(.., interval)
\* with the interval r.ret the ramp returned
calculate_next_interval_start(r) ==
    timing_source_start(
        IF r.ret > 0 THEN [r.s EXCEPT !.out.intervals = @ + 1] ELSE r.s, r.ret)

\* calculate_next_interval that plans the rest of the relative target without
\* setting the direction
calculate_next_interval_finished_same_direction(s) ==
    IF s.relative_target_position # 0
    THEN calculate_next_interval_start(
             stepper_ramp_get_next_interval(
                 stepper_ramp_prepare_move(s, abs_u32(s.relative_target_position)).s))
    ELSE wrapper_event_callback(s, STEPPER_EVENT_STEPS_COMPLETED)

\* calculate_next_interval, lines 55-83: the ramp returned 0 and the timer is
\* stopped
calculate_next_interval_finished(s) ==
    IF s.relative_target_position # 0
    THEN calculate_next_interval_start(
             stepper_ramp_get_next_interval(
                 stepper_ramp_prepare_move(
                     stepper_motion_controller_set_direction(
                         s, SIGN(s.relative_target_position)),
                     abs_u32(s.relative_target_position)).s))
    ELSE wrapper_event_callback(s, STEPPER_EVENT_STEPS_COMPLETED)

\* calculate_next_interval that turns to the sign of the relative target before
\* it starts the timer
calculate_next_interval_apply_turning(r) ==
    IF r.ret > 0
    THEN calculate_next_interval_start(
             [r EXCEPT !.s = stepper_motion_controller_set_direction(
                                 r.s, SIGN(r.s.relative_target_position))])
    ELSE calculate_next_interval_finished(
             timing_source_stop([r.s EXCEPT !.out.zeros = Append(@, r.s.out.intervals)]))

\* calculate_next_interval, lines 39-84: r is what get_next_interval returned
calculate_next_interval_apply(r) ==
    IF r.ret > 0
    THEN calculate_next_interval_start(r)
    ELSE calculate_next_interval_finished(
             timing_source_stop([r.s EXCEPT !.out.zeros = Append(@, r.s.out.intervals)]))

stepper_motion_controller_calculate_next_interval(s) ==
    calculate_next_interval_apply(stepper_ramp_get_next_interval(s))

\* perform_step that counts the step whether or not the hardware made it
perform_step_count_failed(r) ==
    IF /\ r.s.relative_target_position # INT32_MAX
       /\ r.s.relative_target_position # INT32_MIN
    THEN [r.s EXCEPT !.relative_target_position = @ - r.s.direction]
    ELSE r.s

\* perform_step that counts the step whatever the relative target holds
perform_step_count_always(r) ==
    IF r.ret < 0
    THEN r.s
    ELSE [r.s EXCEPT !.relative_target_position = @ - r.s.direction]

\* perform_step that counts the step towards zero, whatever the direction
perform_step_count_towards_zero(r) ==
    IF r.ret < 0
    THEN r.s
    ELSE IF /\ r.s.relative_target_position # INT32_MAX
            /\ r.s.relative_target_position # INT32_MIN
    THEN [r.s EXCEPT !.relative_target_position =
                         @ - SIGN(r.s.relative_target_position)]
    ELSE r.s

\* perform_step, lines 92-104: r is what the step callback returned
perform_step_count(r) ==
    IF r.ret < 0
    THEN r.s
    ELSE IF /\ r.s.relative_target_position # INT32_MAX
            /\ r.s.relative_target_position # INT32_MIN
    THEN [r.s EXCEPT !.relative_target_position = @ - r.s.direction]
    ELSE r.s

stepper_motion_controller_perform_step(s, ok) ==
    perform_step_count(wrapper_step_callback(s, ok))

stepper_handle_timing_signal(s, ok) ==
    stepper_motion_controller_calculate_next_interval(
        stepper_motion_controller_perform_step(s, ok))

\* move_by, lines 170-181: the relative target is stored (s), and the ramp
\* planned count steps
move_by_start(s, count) ==
    [s |-> IF u64_positive(count)
           THEN stepper_motion_controller_calculate_next_interval(s)
           ELSE wrapper_event_callback(s, STEPPER_EVENT_STEPS_COMPLETED),
     ret |-> 0]

\* move_by, line 170: r is what prepare_stop or prepare_move returned
move_by_planned(r, micro_steps) ==
    move_by_start([r.s EXCEPT !.relative_target_position = micro_steps,
                              !.out.count = r.ret],
                  r.ret)

\* move_by that stores the relative target before it looks at the ramp
stepper_motion_controller_move_by_unchecked(s, micro_steps) ==
    IF s.ramp = "NULL"
    THEN [s |-> [s EXCEPT !.relative_target_position = micro_steps], ret |-> -EINVAL]
    ELSE move_by_planned(
             IF /\ timing_source_get_interval(s) > 0
                /\ ~(s.direction = SIGN(micro_steps))
             THEN stepper_ramp_prepare_stop(s)
             ELSE stepper_ramp_prepare_move(
                      stepper_motion_controller_set_direction(s, SIGN(micro_steps)),
                      abs_u32(micro_steps)),
             micro_steps)

\* move_by that sets the direction at once, also against a motion under way
stepper_motion_controller_move_by_turning(s, micro_steps) ==
    IF s.ramp = "NULL"
    THEN [s |-> s, ret |-> -EINVAL]
    ELSE move_by_planned(
             IF /\ timing_source_get_interval(s) > 0
                /\ ~(s.direction = SIGN(micro_steps))
             THEN stepper_ramp_prepare_stop(
                      stepper_motion_controller_set_direction(s, SIGN(micro_steps)))
             ELSE stepper_ramp_prepare_move(
                      stepper_motion_controller_set_direction(s, SIGN(micro_steps)),
                      abs_u32(micro_steps)),
             micro_steps)

stepper_motion_controller_move_by(s, micro_steps) ==
    IF s.ramp = "NULL"
    THEN [s |-> s, ret |-> -EINVAL]
    ELSE move_by_planned(
             IF /\ timing_source_get_interval(s) > 0
                /\ ~(s.direction = SIGN(micro_steps))
             THEN stepper_ramp_prepare_stop(s)
             ELSE stepper_ramp_prepare_move(
                      stepper_motion_controller_set_direction(s, SIGN(micro_steps)),
                      abs_u32(micro_steps)),
             micro_steps)

stepper_motion_controller_is_moving(s) == s.relative_target_position # 0

stepper_motion_controller_set_ramp(s, new_ramp) == [s EXCEPT !.ramp = new_ramp]

\* stop that leaves the sign of the direction out of the relative target
stop_planned_unsigned(r) ==
    IF u64_positive(r.ret)
    THEN stepper_motion_controller_calculate_next_interval(
             [r.s EXCEPT !.relative_target_position = r.ret, !.out.count = r.ret])
    ELSE timing_source_stop([r.s EXCEPT !.relative_target_position = 0,
                                        !.out.count = r.ret])

\* stop that leaves the relative target as it is while deceleration steps remain
stop_planned_keeping_target(r) ==
    IF u64_positive(r.ret)
    THEN stepper_motion_controller_calculate_next_interval(
             [r.s EXCEPT !.out.count = r.ret])
    ELSE timing_source_stop([r.s EXCEPT !.relative_target_position = 0,
                                        !.out.count = r.ret])

\* stop, lines 217-228: r is what prepare_stop returned
stop_planned(r) ==
    IF u64_positive(r.ret)
    THEN stepper_motion_controller_calculate_next_interval(
             [r.s EXCEPT !.relative_target_position = SIGN(r.s.direction) * r.ret,
                         !.out.count = r.ret])
    ELSE timing_source_stop([r.s EXCEPT !.relative_target_position = 0,
                                        !.out.count = r.ret])

\* stop with a ramp bound
stepper_motion_controller_stop(s) == stop_planned(stepper_ramp_prepare_stop(s))

\* run is declared in stepper_motion_controller.h and not defined in the
\* sources: an infinite move, the relative target a sentinel
stepper_motion_controller_run(s, dir) ==
    stepper_motion_controller_move_by(
        s, IF dir = STEPPER_DIRECTION_POSITIVE THEN INT32_MAX ELSE INT32_MIN)

\* set_position, get_position and move_to are in the API table of the wrapper
\* and declared in stepper_motion_controller.h, and not defined in the
\* sources: the position counter is replaced, read, and move_to(p) is
\* move_by(p - position), in int32_t
stepper_motion_controller_set_position(s, value) == [s EXCEPT !.position = value]

stepper_motion_controller_get_position(s) == s.position

stepper_motion_controller_move_to(s, value) ==
    stepper_motion_controller_move_by(s, value - s.position)

(***************************************************************************)
(* The handlers step by step.  K_SPINLOCK masks the interrupts, so a section *)
(* under the lock is one step; between two sections a handler of a higher  *)
(* priority can run, from its start to its end.                            *)
(***************************************************************************)
\* stepper_handle_timing_signal, line 111: perform_step, which takes no lock
handle_timing_signal_step(s, ok) ==
    [stepper_motion_controller_perform_step(s, ok) EXCEPT
         !.race.tick_pc = "stepped",
         !.race.intruded = @ \/ s.race.call_pc # "idle",
         !.race.overtaken = FALSE]

\* calculate_next_interval, line 39: r is what get_next_interval returned,
\* before the lock is taken
calculate_next_interval_read_result(r) ==
    [r.s EXCEPT !.race.tick_pc = "read", !.race.next_interval = r.ret]

\* calculate_next_interval, lines 44-84: the sections under the lock, with the
\* next_interval of line 39
calculate_next_interval_locked(s) ==
    calculate_next_interval_apply(
        [s |-> [s EXCEPT !.race.tick_pc = "idle", !.race.next_interval = 0],
         ret |-> s.race.next_interval])

\* stop, line 214: r is what prepare_stop returned; stop takes no lock
stop_prepare_result(r) ==
    [r.s EXCEPT !.race.call_pc = "planned", !.race.count = r.ret]

\* stop, lines 216-228, with the stop_steps_count of line 214
stop_commit(s) ==
    stop_planned([s |-> [s EXCEPT !.race.call_pc = "idle", !.race.count = 0],
                  ret |-> s.race.count])

\* a mutator starts: the tick handler may be in flight
mutator_starts(s) ==
    [s EXCEPT !.race.intruded = @ \/ s.race.tick_pc # "idle"]

\* a mutator ends in state s: it has planned steps and armed the timer, or not
mutator_ends(s) ==
    [s EXCEPT !.race.overtaken =
                  /\ s.race.tick_pc = "read"
                  /\ s.out.count > 0
                  /\ s.timing_interval > 0]

\* move_by ends: r is what it returned
move_by_ends(r) == [s |-> mutator_ends(r.s), ret |-> r.ret]

(***************************************************************************)
(* The handlers with their K_SPINLOCK sections                              *)
(***************************************************************************)
\* K_SPINLOCK(&data->lock) {: the section is entered
k_spin_lock(s) ==
    [s EXCEPT !.race.nested = @ \/ s.race.depth > 0, !.race.depth = @ + 1]

\* }: the section is left
k_spin_unlock(s) == [s EXCEPT !.race.depth = @ - 1]

\* set_direction, lines 25-29
stepper_motion_controller_set_direction_locking(s, dir) ==
    wrapper_set_direction_callback(
        k_spin_unlock([k_spin_lock(s) EXCEPT !.direction = dir]), dir)

\* calculate_next_interval, lines 58-82, inside the section of line 56
calculate_next_interval_finished_locking(s) ==
    IF s.relative_target_position # 0
    THEN calculate_next_interval_start(
             stepper_ramp_get_next_interval(
                 stepper_ramp_prepare_move(
                     stepper_motion_controller_set_direction_locking(
                         s, SIGN(s.relative_target_position)),
                     abs_u32(s.relative_target_position)).s))
    ELSE wrapper_event_callback(s, STEPPER_EVENT_STEPS_COMPLETED)

\* calculate_next_interval, lines 44-84: the sections of lines 46 and 56
calculate_next_interval_apply_locking(r) ==
    k_spin_unlock(
        IF r.ret > 0
        THEN calculate_next_interval_start([r EXCEPT !.s = k_spin_lock(r.s)])
        ELSE calculate_next_interval_finished_locking(
                 timing_source_stop(
                     [k_spin_lock(r.s) EXCEPT
                        !.out.zeros = Append(@, r.s.out.intervals)])))

stepper_motion_controller_calculate_next_interval_locking(s) ==
    calculate_next_interval_apply_locking(stepper_ramp_get_next_interval(s))

\* stepper_handle_timing_signal, started outside every section
stepper_handle_timing_signal_locking(s, ok) ==
    stepper_motion_controller_calculate_next_interval_locking(
        stepper_motion_controller_perform_step(
            [s EXCEPT !.race.depth = 0, !.race.nested = FALSE], ok))

\* move_by, lines 170-181, inside the section of line 151
move_by_planned_locking(r, micro_steps) ==
    IF u64_positive(r.ret)
    THEN stepper_motion_controller_calculate_next_interval_locking(
             [r.s EXCEPT !.relative_target_position = micro_steps,
                         !.out.count = r.ret])
    ELSE wrapper_event_callback(
             [r.s EXCEPT !.relative_target_position = micro_steps,
                         !.out.count = r.ret],
             STEPPER_EVENT_STEPS_COMPLETED)

\* move_by, lines 151-182: the section of line 151; s is inside it
move_by_section(s, micro_steps) ==
    k_spin_unlock(
        move_by_planned_locking(
            IF /\ timing_source_get_interval(s) > 0
               /\ ~(s.direction = SIGN(micro_steps))
            THEN stepper_ramp_prepare_stop(s)
            ELSE stepper_ramp_prepare_move(
                     stepper_motion_controller_set_direction_locking(
                         s, SIGN(micro_steps)),
                     abs_u32(micro_steps)),
            micro_steps))

\* stepper_motion_controller_move_by, started outside every section
stepper_motion_controller_move_by_locking(s, micro_steps) ==
    IF s.ramp = "NULL"
    THEN [s |-> s, ret |-> -EINVAL]
    ELSE [s |-> move_by_section(
                    k_spin_lock([s EXCEPT !.race.depth = 0, !.race.nested = FALSE]),
                    micro_steps),
          ret |-> 0]

\* k_spin_lock on a lock the caller holds itself: on a multiprocessor build it
\* spins for ever, on a uniprocessor build the lock is the interrupt mask and
\* the handler goes on
spins_for_ever(s) == s.race.smp /\ s.race.nested

(***************************************************************************)
(* Initial state and actions                                               *)
(***************************************************************************)
Ramps == {"constant", "trapezoidal"}

MoveArgs == -MaxMove .. MaxMove

IsSentinel(x) == x = INT32_MAX \/ x = INT32_MIN

\* the timer is disarmed and nothing is left to do
Idle == timing_interval = 0 /\ relative_target_position = 0

\* the trapezoidal ramp is stepping at the interval of its profile
Cruise ==
    /\ ramp = "trapezoidal"
    /\ timing_interval > 0
    /\ timing_interval = trapezoidal_profile.run_interval
    /\ trapezoidal_data.current_interval = trapezoidal_profile.run_interval

\* no API call yet; leg is the call before the last one, here not a move_by
\* from rest
obs_init ==
    [op |-> "init", arg |-> 0, ret |-> 0, ramp |-> "NULL", rest |-> TRUE,
     armed |-> FALSE, cruise |-> FALSE, dir |-> STEPPER_DIRECTION_POSITIVE, rt |-> 0,
     ticks |-> 0, failed |-> FALSE, leg |-> [arg |-> 0, moved |-> 0]]

\* stepper_motion_controller_init and the static initialisers
Init ==
    /\ ramp = "NULL"
    /\ direction = STEPPER_DIRECTION_POSITIVE
    /\ relative_target_position = 0
    /\ timing_interval = 0
    /\ constant_data = constant_data_init
    /\ trapezoidal_data = trapezoidal_data_init
    /\ trapezoidal_profile \in TrapezoidalProfiles
    /\ current_direction = STEPPER_DIRECTION_POSITIVE
    /\ event_callback = FALSE
    /\ faulted = FALSE
    /\ world = world_init
    /\ obs = obs_init
    /\ ncmds = 0
    /\ nfail = 0
    /\ position = 0
    /\ div0_traps = TRUE
    /\ stepper_enabled = TRUE
    /\ race = race_init

\* the state a call starts from: nothing seen yet by hardware and subscriber
Fresh == [State EXCEPT !.out = world_init]

\* the state a handler leaves: s, or the state it started from when a division
\* by zero trapped on the way and the program went no further
Landed(s) == IF s.out.trap THEN [State EXCEPT !.out.trap = TRUE] ELSE s

\* an API call op(arg) that returned ret and left the program in state s
Call(op, arg, s, ret) ==
    /\ ~faulted
    /\ ncmds < MaxCmds
    /\ Commit(Landed(s))
    /\ obs' = [op |-> op, arg |-> arg, ret |-> ret, ramp |-> ramp, rest |-> Idle,
               armed |-> timing_interval > 0, cruise |-> Cruise, dir |-> direction,
               rt |-> relative_target_position, ticks |-> 0, failed |-> FALSE,
               leg |-> IF obs.op = "move_by" /\ obs.rest /\ obs.ret = 0 /\ ~obs.failed
                       THEN [arg |-> obs.arg, moved |-> world.fwd - world.bwd]
                       ELSE [arg |-> 0, moved |-> 0]]
    /\ ncmds' = ncmds + 1
    /\ faulted' = s.out.trap
    /\ nfail' = nfail

SetRamp(new_ramp) ==
    Call("set_ramp", 0, stepper_motion_controller_set_ramp(Fresh, new_ramp), 0)

\* stepper_set_event_callback, called before the first command: obs and world
\* keep describing the last command
SetEventCallback(callback) ==
    /\ ~faulted
    /\ ncmds = 0
    /\ Commit(wrapper_stepper_motion_set_event_callback(State, callback))
    /\ UNCHANGED <<faulted, obs, ncmds, nfail>>

\* an API call that returns r.ret and leaves the program in r.s
CallReturning(op, arg, r) == Call(op, arg, r.s, r.ret)

MoveBy(micro_steps) ==
    CallReturning("move_by", micro_steps,
                  stepper_motion_controller_move_by(Fresh, micro_steps))

Run(dir) == CallReturning("run", dir, stepper_motion_controller_run(Fresh, dir))

Stop ==
    /\ ramp # "NULL"
    /\ Call("stop", 0, stepper_motion_controller_stop(Fresh), 0)

\* stop with no ramp bound: stepper_ramp_prepare_stop(NULL) reads ramp->api
StopNullRamp ==
    /\ ~faulted
    /\ ncmds < MaxCmds
    /\ ramp = "NULL"
    /\ faulted' = TRUE
    /\ ncmds' = ncmds + 1
    /\ UNCHANGED <<ramp, direction, relative_target_position, timing_interval,
                   constant_data, trapezoidal_data, trapezoidal_profile,
                   current_direction, event_callback, world, obs, nfail, position,
                   div0_traps, stepper_enabled, race>>

\* the timing source fires; ok is whether the hardware makes the step, which
\* a disabled stepper does not
Tick(ok) ==
    /\ ~faulted
    /\ timing_interval > 0
    /\ obs.ticks < MaxTicks
    /\ ~ok => nfail < MaxFail
    /\ ~stepper_enabled => ~ok
    /\ Commit(Landed(stepper_handle_timing_signal(State, ok)))
    /\ obs' = [obs EXCEPT !.ticks = @ + 1, !.failed = @ \/ ~ok]
    /\ nfail' = IF ok THEN nfail ELSE nfail + 1
    /\ faulted' = world'.trap
    /\ ncmds' = ncmds

Next ==
    \/ \E new_ramp \in Ramps : SetRamp(new_ramp)
    \/ \E callback \in BOOLEAN : SetEventCallback(callback)
    \/ \E micro_steps \in MoveArgs : MoveBy(micro_steps)
    \/ \E dir \in {STEPPER_DIRECTION_NEGATIVE, STEPPER_DIRECTION_POSITIVE} : Run(dir)
    \/ Stop
    \/ StopNullRamp
    \/ \E ok \in BOOLEAN : Tick(ok)

Spec == Init /\ [][Next]_vars

\* the controller with a profile that brakes more gently than it accelerates,
\* so that a deceleration takes several steps
GentleBrakeInit ==
    /\ ramp = "NULL"
    /\ direction = STEPPER_DIRECTION_POSITIVE
    /\ relative_target_position = 0
    /\ timing_interval = 0
    /\ constant_data = constant_data_init
    /\ trapezoidal_data = trapezoidal_data_init
    /\ trapezoidal_profile = [acceleration_rate |-> 50, run_interval |-> 100000000,
                              deceleration_rate |-> 10]
    /\ current_direction = STEPPER_DIRECTION_POSITIVE
    /\ event_callback = FALSE
    /\ faulted = FALSE
    /\ world = world_init
    /\ obs = obs_init
    /\ ncmds = 0
    /\ nfail = 0
    /\ position = 0
    /\ div0_traps = TRUE
    /\ stepper_enabled = TRUE
    /\ race = race_init

GentleBrakeSpec == GentleBrakeInit /\ [][Next]_vars

\* set_position and move_to are called with -MaxPos .. MaxPos
MaxPos == 1

SetPosition(value) ==
    Call("set_position", value, stepper_motion_controller_set_position(Fresh, value), 0)

MoveTo(value) ==
    CallReturning("move_to", value, stepper_motion_controller_move_to(Fresh, value))

\* the commands that read or write the position counter
PositionNext ==
    \/ \E new_ramp \in Ramps : SetRamp(new_ramp)
    \/ \E value \in -MaxPos .. MaxPos : SetPosition(value)
    \/ \E micro_steps \in MoveArgs : MoveBy(micro_steps)
    \/ \E value \in -MaxPos .. MaxPos : MoveTo(value)
    \/ \E ok \in BOOLEAN : Tick(ok)

PositionSpec == Init /\ [][PositionNext]_vars

\* a ramp profile with a rate of zero, on a processor that traps a division by
\* zero or on one that does not
MathErrorInit ==
    /\ ramp = "NULL"
    /\ direction = STEPPER_DIRECTION_POSITIVE
    /\ relative_target_position = 0
    /\ timing_interval = 0
    /\ constant_data = constant_data_init
    /\ trapezoidal_data = trapezoidal_data_init
    /\ trapezoidal_profile \in ZeroRateProfiles
    /\ current_direction = STEPPER_DIRECTION_POSITIVE
    /\ event_callback = FALSE
    /\ faulted = FALSE
    /\ world = world_init
    /\ obs = obs_init
    /\ ncmds = 0
    /\ nfail = 0
    /\ position = 0
    /\ div0_traps \in BOOLEAN
    /\ stepper_enabled = TRUE
    /\ race = race_init

MathErrorNext ==
    \/ \E new_ramp \in Ramps : SetRamp(new_ramp)
    \/ \E micro_steps \in MoveArgs : MoveBy(micro_steps)
    \/ Stop
    \/ \E ok \in BOOLEAN : Tick(ok)

MathErrorSpec == MathErrorInit /\ [][MathErrorNext]_vars

\* hardware events raised between two commands
MaxRaised == 1

\* the hardware stepper raises an event
HardwareEvent(event) ==
    /\ ~faulted
    /\ Len(world.raised) < MaxRaised
    /\ Commit(stepper_event_raised(State, event))
    /\ UNCHANGED <<faulted, obs, ncmds, nfail>>

\* moves with a subscriber, and the events of the hardware stepper
EventNext ==
    \/ \E new_ramp \in Ramps : SetRamp(new_ramp)
    \/ \E callback \in BOOLEAN : SetEventCallback(callback)
    \/ \E micro_steps \in MoveArgs : MoveBy(micro_steps)
    \/ \E ok \in BOOLEAN : Tick(ok)
    \/ \E event \in HardwareEvents : HardwareEvent(event)

EventSpec == Init /\ [][EventNext]_vars

\* the application disables the hardware stepper
Disable ==
    /\ stepper_enabled
    /\ Call("disable", 0, stepper_disable(Fresh), 0)

\* moves, and the hardware stepper disabled under them
DisableNext ==
    \/ \E new_ramp \in Ramps : SetRamp(new_ramp)
    \/ \E micro_steps \in MoveArgs : MoveBy(micro_steps)
    \/ Disable
    \/ \E ok \in BOOLEAN : Tick(ok)

DisableSpec == Init /\ [][DisableNext]_vars

\* the timing source fires and stepper_handle_timing_signal makes its step;
\* stop may be between its lines 214 and 216
TickStep(ok) ==
    /\ ~faulted
    /\ timing_interval > 0
    /\ race.tick_pc = "idle"
    /\ obs.ticks < MaxTicks
    /\ ~ok => nfail < MaxFail
    /\ ~stepper_enabled => ~ok
    /\ Commit(handle_timing_signal_step(State, ok))
    /\ obs' = [obs EXCEPT !.ticks = @ + 1, !.failed = @ \/ ~ok]
    /\ nfail' = IF ok THEN nfail ELSE nfail + 1
    /\ UNCHANGED <<faulted, ncmds>>

\* the tick handler reads the next interval from the ramp
TickRead ==
    /\ ~faulted
    /\ race.tick_pc = "stepped"
    /\ Commit(calculate_next_interval_read_result(stepper_ramp_get_next_interval(State)))
    /\ UNCHANGED <<faulted, obs, ncmds, nfail>>

\* the tick handler takes the lock and arms or disarms the timer
TickArm ==
    /\ ~faulted
    /\ race.tick_pc = "read"
    /\ Commit(Landed(calculate_next_interval_locked(State)))
    /\ faulted' = world'.trap
    /\ UNCHANGED <<obs, ncmds, nfail>>

\* stop asks the ramp for the steps of a stop
StopPlan ==
    /\ ~faulted
    /\ ncmds < MaxCmds
    /\ ramp # "NULL"
    /\ race.call_pc = "idle"
    /\ race.tick_pc = "idle"
    /\ Commit(stop_prepare_result(stepper_ramp_prepare_stop(State)))
    /\ UNCHANGED <<faulted, obs, ncmds, nfail>>

\* stop goes on after the tick handler that came between has returned
StopCommit ==
    /\ race.call_pc = "planned"
    /\ race.tick_pc = "idle"
    /\ Call("stop", 0, stop_commit(Fresh), 0)

\* move_by from its first line to its last, the tick handler in flight or not
RaceMoveBy(micro_steps) ==
    /\ race.call_pc = "idle"
    /\ CallReturning("move_by", micro_steps,
                     move_by_ends(stepper_motion_controller_move_by(
                                      mutator_starts(Fresh), micro_steps)))

\* stop from its first line to its last, the tick handler in flight or not
RaceStop ==
    /\ race.call_pc = "idle"
    /\ ramp # "NULL"
    /\ Call("stop", 0,
            mutator_ends(stepper_motion_controller_stop(mutator_starts(Fresh))),
            0)

\* set_ramp, as the first command
RaceSetRamp(new_ramp) ==
    /\ race.call_pc = "idle"
    /\ ncmds = 0
    /\ SetRamp(new_ramp)

\* the handlers as the processor interleaves them
RaceNext ==
    \/ \E new_ramp \in Ramps : RaceSetRamp(new_ramp)
    \/ \E micro_steps \in MoveArgs : RaceMoveBy(micro_steps)
    \/ RaceStop
    \/ StopPlan
    \/ StopCommit
    \/ \E ok \in BOOLEAN : TickStep(ok)
    \/ TickRead
    \/ TickArm

RaceSpec == Init /\ [][RaceNext]_vars

(***************************************************************************)
(* The trapezoidal ramp on its own: the calls of struct stepper_ramp_api in *)
(* any order, as the controller makes them on moves, ticks and stops, and   *)
(* the profile rewritten between them                                       *)
(***************************************************************************)
\* the largest step count of prepare_move
MaxPlan == 6

\* the number of calls made to the ramp
MaxRampCalls == 6

RampInit ==
    /\ ramp = "trapezoidal"
    /\ direction = STEPPER_DIRECTION_POSITIVE
    /\ relative_target_position = 0
    /\ timing_interval = 0
    /\ constant_data = constant_data_init
    /\ trapezoidal_data = trapezoidal_data_init
    /\ trapezoidal_profile \in RampProfiles
    /\ current_direction = STEPPER_DIRECTION_POSITIVE
    /\ event_callback = FALSE
    /\ faulted = FALSE
    /\ world = world_init
    /\ obs = [obs_init EXCEPT !.ramp = "trapezoidal"]
    /\ ncmds = 0
    /\ nfail = 0
    /\ position = 0
    /\ div0_traps = TRUE
    /\ stepper_enabled = TRUE
    /\ race = race_init

\* a call op(arg) of the ramp's api that left the data r.data and returned
\* r.ret; rest tells that the plan in force was made at rest and not changed
\* since
RampCall(op, arg, rest, r) ==
    /\ ~faulted
    /\ ncmds < MaxRampCalls
    /\ trapezoidal_data' = r.data
    /\ obs' = [obs EXCEPT !.op = op, !.arg = arg, !.ret = r.ret, !.rest = rest]
    /\ ncmds' = ncmds + 1
    /\ UNCHANGED <<ramp, direction, relative_target_position, timing_interval,
                   constant_data, trapezoidal_profile, current_direction,
                   event_callback, faulted, world, nfail, position, div0_traps,
                   stepper_enabled, race>>

\* stepper_ramp_prepare_move(ramp, step_count)
RampPrepareMove(step_count) ==
    RampCall("prepare_move", step_count, trapezoidal_data.current_interval = 0,
             trapezoidal_prepare_move(trapezoidal_data, trapezoidal_profile, step_count))

\* stepper_ramp_prepare_stop(ramp)
RampPrepareStop ==
    RampCall("prepare_stop", 0, FALSE,
             trapezoidal_prepare_stop(trapezoidal_data, trapezoidal_profile))

\* stepper_ramp_get_next_interval(ramp)
RampGetNextInterval ==
    RampCall("get_next_interval", 0, obs.rest,
             trapezoidal_get_next_interval(trapezoidal_data))

\* the application writes another profile into the struct the ramp points to
RampSetProfile(profile) ==
    /\ ncmds < MaxRampCalls
    /\ profile # trapezoidal_profile
    /\ trapezoidal_profile' = profile
    /\ obs' = [obs EXCEPT !.op = "set_profile", !.arg = 0, !.ret = 0, !.rest = FALSE]
    /\ ncmds' = ncmds + 1
    /\ UNCHANGED <<ramp, direction, relative_target_position, timing_interval,
                   constant_data, trapezoidal_data, current_direction,
                   event_callback, faulted, world, nfail, position, div0_traps,
                   stepper_enabled, race>>

RampNext ==
    \/ \E step_count \in 0..MaxPlan : RampPrepareMove(step_count)
    \/ RampPrepareStop
    \/ RampGetNextInterval
    \/ \E profile \in RampProfiles : RampSetProfile(profile)

RampSpec == RampInit /\ [][RampNext]_vars

(***************************************************************************)
(* The trapezoidal ramp on its own with a profile that has a rate of zero   *)
(***************************************************************************)
RampErrorInit ==
    /\ ramp = "trapezoidal"
    /\ direction = STEPPER_DIRECTION_POSITIVE
    /\ relative_target_position = 0
    /\ timing_interval = 0
    /\ constant_data = constant_data_init
    /\ trapezoidal_data = trapezoidal_data_init
    /\ trapezoidal_profile \in ZeroRateProfiles
    /\ current_direction = STEPPER_DIRECTION_POSITIVE
    /\ event_callback = FALSE
    /\ faulted = FALSE
    /\ world = world_init
    /\ obs = [obs_init EXCEPT !.ramp = "trapezoidal"]
    /\ ncmds = 0
    /\ nfail = 0
    /\ position = 0
    /\ div0_traps \in BOOLEAN
    /\ stepper_enabled = TRUE
    /\ race = race_init

\* stepper_ramp_prepare_move(ramp, step_count) where no division traps
RampPrepareMoveReturns(step_count) ==
    /\ ~(div0_traps /\ prepare_move_divides_by_zero(trapezoidal_data, trapezoidal_profile))
    /\ RampPrepareMove(step_count)

\* stepper_ramp_prepare_move(ramp, step_count) where a division by zero traps:
\* the call does not return
RampPrepareMoveTraps(step_count) ==
    /\ ~faulted
    /\ ncmds < MaxRampCalls
    /\ div0_traps
    /\ prepare_move_divides_by_zero(trapezoidal_data, trapezoidal_profile)
    /\ faulted' = TRUE
    /\ obs' = [obs EXCEPT !.op = "prepare_move", !.arg = step_count, !.ret = 0,
                          !.rest = FALSE]
    /\ ncmds' = ncmds + 1
    /\ UNCHANGED <<ramp, direction, relative_target_position, timing_interval,
                   constant_data, trapezoidal_data, trapezoidal_profile,
                   current_direction, event_callback, world, nfail, position,
                   div0_traps, stepper_enabled, race>>

RampErrorNext ==
    \/ \E step_count \in 0..MaxPlan : RampPrepareMoveReturns(step_count)
    \/ \E step_count \in 0..MaxPlan : RampPrepareMoveTraps(step_count)
    \/ RampPrepareStop
    \/ RampGetNextInterval

RampErrorSpec == RampErrorInit /\ [][RampErrorNext]_vars

(***************************************************************************)
(* isqrt on its own                                                        *)
(***************************************************************************)
\* isqrt is called with every n in 0..MaxIsqrtSmall,
MaxIsqrtSmall == 50

\* with the MaxIsqrtBelowTop + 1 largest values of uint64_t, from 2^64 - 1
\* downwards,
MaxIsqrtBelowTop == 30

\* and with r * r and r * r - 1 for the MaxIsqrtRoots + 1 largest roots r, from
\* the largest uint32_t, 2^32 - 1, downwards
MaxIsqrtRoots == 15

\* the number of calls of isqrt
MaxIsqrtCalls == 1

\* the arguments isqrt is called with: those above and the ones
\* avr446_start_interval passes for the rates of the model
IsqrtInputs ==
    LET roots == {u64_sub(u64_lit(4, 294967295), u64_from(j)) : j \in 0..MaxIsqrtRoots}
    IN {u64_from(k) : k \in 0..MaxIsqrtSmall}
         \cup {u64_sub(<<LIMB - 1, LIMB - 1, LIMB - 1, LIMB - 1, U64_TOP - 1, 0>>,
                        u64_from(j)) : j \in 0..MaxIsqrtBelowTop}
         \cup {u64_mul(r, r) : r \in roots}
         \cup {u64_sub(u64_mul(r, r), u64_from(1)) : r \in roots}
         \cup {u64_div(u64_mul(u64_mul(u64_from(2), factor), factor), u64_from(rate)) :
                   rate \in ProfileRates \ {0}}

IsqrtInit ==
    /\ ramp = "NULL"
    /\ direction = STEPPER_DIRECTION_POSITIVE
    /\ relative_target_position = 0
    /\ timing_interval = 0
    /\ constant_data = constant_data_init
    /\ trapezoidal_data = trapezoidal_data_init
    /\ trapezoidal_profile = CHOOSE profile \in TrapezoidalProfiles : TRUE
    /\ current_direction = STEPPER_DIRECTION_POSITIVE
    /\ event_callback = FALSE
    /\ faulted = FALSE
    /\ world = world_init
    /\ obs = obs_init
    /\ ncmds = 0
    /\ nfail = 0
    /\ position = 0
    /\ div0_traps \in BOOLEAN
    /\ stepper_enabled = TRUE
    /\ race = race_init

\* isqrt(n) returns.  Where the division by zero does not trap, x is 0 then and
\* y = (0 + q) / 2 is not below it whether the quotient q is 0 or all ones, so
\* the loop ends and (uint32_t)x = 0 is returned
IsqrtReturns(n) ==
    /\ ~faulted
    /\ ncmds < MaxIsqrtCalls
    /\ ~(div0_traps /\ isqrt_divides_by_zero(n))
    /\ obs' = [obs_init EXCEPT !.op = "isqrt", !.arg = n,
                                !.ret = IF isqrt_divides_by_zero(n) THEN u64_zero
                                        ELSE isqrt(n)]
    /\ ncmds' = ncmds + 1
    /\ UNCHANGED <<ramp, direction, relative_target_position, timing_interval,
                   constant_data, trapezoidal_data, trapezoidal_profile,
                   current_direction, event_callback, faulted, world, nfail,
                   position, div0_traps, stepper_enabled, race>>

\* isqrt(n) divides by zero and the division traps: the call does not return
IsqrtTraps(n) ==
    /\ ~faulted
    /\ ncmds < MaxIsqrtCalls
    /\ div0_traps
    /\ isqrt_divides_by_zero(n)
    /\ faulted' = TRUE
    /\ obs' = [obs_init EXCEPT !.op = "isqrt", !.arg = n, !.ret = u64_zero]
    /\ ncmds' = ncmds + 1
    /\ UNCHANGED <<ramp, direction, relative_target_position, timing_interval,
                   constant_data, trapezoidal_data, trapezoidal_profile,
                   current_direction, event_callback, world, nfail, position,
                   div0_traps, stepper_enabled, race>>

IsqrtNext ==
    \/ \E n \in IsqrtInputs : IsqrtReturns(n)
    \/ \E n \in IsqrtInputs : IsqrtTraps(n)

IsqrtSpec == IsqrtInit /\ [][IsqrtNext]_vars

(***************************************************************************)
(* The handlers and the lock, on a uniprocessor and on a multiprocessor     *)
(* build                                                                    *)
(***************************************************************************)
LockInit ==
    /\ ramp = "NULL"
    /\ direction = STEPPER_DIRECTION_POSITIVE
    /\ relative_target_position = 0
    /\ timing_interval = 0
    /\ constant_data = constant_data_init
    /\ trapezoidal_data = trapezoidal_data_init
    /\ trapezoidal_profile \in TrapezoidalProfiles
    /\ current_direction = STEPPER_DIRECTION_POSITIVE
    /\ event_callback = FALSE
    /\ faulted = FALSE
    /\ world = world_init
    /\ obs = obs_init
    /\ ncmds = 0
    /\ nfail = 0
    /\ position = 0
    /\ div0_traps = TRUE
    /\ stepper_enabled = TRUE
    /\ race \in {[race_init EXCEPT !.smp = smp] : smp \in BOOLEAN}

\* move_by runs to its return, r what it returns
LockMoveByReturning(micro_steps, r) ==
    /\ ~race.hung
    /\ ~spins_for_ever(r.s)
    /\ CallReturning("move_by", micro_steps, r)

LockMoveByReturns(micro_steps) ==
    LockMoveByReturning(micro_steps,
                        stepper_motion_controller_move_by_locking(Fresh, micro_steps))

\* move_by takes the lock it holds and spins: nothing it was about to do is
\* done
LockMoveByHangs(micro_steps) ==
    /\ ~race.hung
    /\ ~faulted
    /\ ncmds < MaxCmds
    /\ spins_for_ever(stepper_motion_controller_move_by_locking(Fresh, micro_steps).s)
    /\ race' = [race EXCEPT !.hung = TRUE, !.nested = TRUE]
    /\ UNCHANGED <<ramp, direction, relative_target_position, timing_interval,
                   constant_data, trapezoidal_data, trapezoidal_profile,
                   current_direction, event_callback, faulted, world, nfail,
                   position, div0_traps, stepper_enabled>>
    /\ obs' = [obs EXCEPT !.op = "move_by", !.arg = micro_steps]
    /\ ncmds' = ncmds + 1

\* the tick handler runs to its end in the state s.  On a multiprocessor build
\* no move_by ever returns with the timer armed, so that the handler is never
\* started there.
LockTickLanding(ok, s) ==
    /\ ~race.hung
    /\ ~faulted
    /\ timing_interval > 0
    /\ obs.ticks < MaxTicks
    /\ ~ok => nfail < MaxFail
    /\ ~spins_for_ever(s)
    /\ Commit(Landed(s))
    /\ obs' = [obs EXCEPT !.ticks = @ + 1, !.failed = @ \/ ~ok]
    /\ nfail' = IF ok THEN nfail ELSE nfail + 1
    /\ faulted' = world'.trap
    /\ ncmds' = ncmds

LockTickReturns(ok) == LockTickLanding(ok, stepper_handle_timing_signal_locking(State, ok))

LockSetRamp(new_ramp) == ~race.hung /\ SetRamp(new_ramp)

LockNext ==
    \/ \E new_ramp \in Ramps : LockSetRamp(new_ramp)
    \/ \E micro_steps \in MoveArgs : LockMoveByReturns(micro_steps)
    \/ \E micro_steps \in MoveArgs : LockMoveByHangs(micro_steps)
    \/ \E ok \in BOOLEAN : LockTickReturns(ok)

LockSpec == LockInit /\ [][LockNext]_vars

\* the commands of an infinite run and its stop
RunStopNext ==
    \/ \E new_ramp \in Ramps : SetRamp(new_ramp)
    \/ \E dir \in {STEPPER_DIRECTION_NEGATIVE, STEPPER_DIRECTION_POSITIVE} : Run(dir)
    \/ Stop
    \/ \E ok \in BOOLEAN : Tick(ok)

\* Runs and stops, where the timing source fires when it is armed and the
\* hardware makes the step.  The fair action is Tick(TRUE) as the steps of Next
\* show it in obs and nfail: Tick is the one action that counts a tick, and
\* Tick(FALSE) the one that counts a failure.  It is enabled exactly when
\* Tick(TRUE) is.
FairSpec ==
    /\ Init
    /\ [][RunStopNext]_vars
    /\ WF_<<obs, nfail>>(/\ ~faulted
                         /\ timing_interval > 0
                         /\ obs.ticks < MaxTicks
                         /\ obs' = [obs EXCEPT !.ticks = @ + 1]
                         /\ nfail' = nfail)

(***************************************************************************)
(* Claims                                                                  *)
(***************************************************************************)
\* the net number of steps the hardware made since the last API call
Moved == world.fwd - world.bwd

\* the number of steps the hardware made since the last API call
Stepped == world.fwd + world.bwd

\* the timing source is disarmed: no tick follows unless a command arms it
Disarmed == timing_interval = 0

\* C1: a finite move_by(n) issued from rest with a ramp bound, all steps
\* succeeding, has moved the hardware by exactly n once the timer is disarmed.
C1_DeltaEqualsN ==
    (/\ obs.op = "move_by"
     /\ obs.ramp # "NULL"
     /\ obs.rest
     /\ ~obs.failed
     /\ Disarmed)
    => Moved = obs.arg

\* C2: with the constant ramp, a subscriber registered and all steps
\* succeeding, move_by(N) from rest, N >= 1, arms the timer for exactly N
\* ticks, each time with the profile interval, every tick makes one step, and
\* the subscriber has received nothing before the N-th step and exactly
\* [STEPS_COMPLETED] after it.
C2_ConstantMove ==
    (/\ obs.op = "move_by"
     /\ obs.ramp = "constant"
     /\ obs.rest
     /\ obs.arg >= 1
     /\ ~obs.failed
     /\ event_callback)
    => /\ obs.ticks <= obs.arg
       /\ Moved = obs.ticks
       /\ Stepped = obs.ticks
       /\ (timing_interval > 0) <=> (obs.ticks < obs.arg)
       /\ timing_interval > 0 => timing_interval = constant_profile.interval_ns
       /\ world.delivered =
            IF obs.ticks = obs.arg THEN <<STEPPER_EVENT_STEPS_COMPLETED>> ELSE <<>>

\* the move of C2 has made its last step
C2_Witness ==
    /\ obs.op = "move_by"
    /\ obs.ramp = "constant"
    /\ obs.rest
    /\ obs.arg = MaxMove
    /\ ~obs.failed
    /\ event_callback
    /\ obs.ticks = obs.arg
    /\ world.delivered = <<STEPPER_EVENT_STEPS_COMPLETED>>

\* C3: when stop() interrupts a motion and plans a deceleration of at least
\* one step, all steps succeeding, the events emitted by the time the
\* deceleration is over are exactly [STOPPED].
C3_StoppedEvent ==
    (/\ obs.op = "stop"
     /\ obs.armed
     /\ world.count >= 1
     /\ ~obs.failed
     /\ Disarmed)
    => world.events = <<STEPPER_EVENT_STOPPED>>

\* the call at hand is a stop() made while the timer was armed, with a ramp
\* bound, and every step since has succeeded
StopWhileMoving == obs.op = "stop" /\ obs.armed /\ ~obs.failed

\* C4: stop() while moving, all steps succeeding.  If prepare_stop reports
\* D >= 1, the relative target is sign(direction) * D after the call and goes
\* down by one with each of exactly D further steps in the direction held at
\* the call; the timer is armed until the D-th step and disarmed by it, with
\* relative target 0.  If it reports D = 0, the relative target is 0 and the
\* timer is disarmed at once, with no further step.
C4_StopSemantics ==
    StopWhileMoving
    => IF world.count >= 1
       THEN /\ obs.ticks <= world.count
            /\ Stepped = obs.ticks
            /\ Moved = obs.dir * obs.ticks
            /\ direction = obs.dir
            /\ relative_target_position = SIGN(obs.dir) * (world.count - obs.ticks)
            /\ (timing_interval > 0) <=> (obs.ticks < world.count)
       ELSE /\ obs.ticks = 0
            /\ Stepped = 0
            /\ relative_target_position = 0
            /\ Disarmed

\* a stop() that planned at least one step has made its last step
C4_Witness ==
    /\ StopWhileMoving
    /\ world.count >= 1
    /\ obs.ticks = world.count
    /\ obs.dir = STEPPER_DIRECTION_NEGATIVE
    /\ Disarmed

\* the call at hand is a stop() made during an infinite run
StopOfRun == obs.op = "stop" /\ obs.armed /\ IsSentinel(obs.rt)

\* after a stop() made during an infinite run, all steps succeeding, the timer
\* fires at most as many times as the deceleration step count computed at the
\* stop, and the controller is idle once it has
StopOfRunBound ==
    (StopOfRun /\ ~obs.failed)
    => /\ obs.ticks <= world.count
       /\ obs.ticks = world.count => Idle /\ ~stepper_motion_controller_is_moving(State)

\* C5: an infinite run followed by stop() terminates.  With fair ticks the
\* controller becomes idle (timer disarmed, relative target 0, is_moving false)
\* unless it is given a further command, and when all steps succeed it does so
\* within D ticks, D the deceleration step count computed at the stop.
C5_StopOfRunTerminates ==
    /\ []StopOfRunBound
    /\ StopOfRun ~> (Idle \/ ~StopOfRun)

\* a stop() made during an infinite run has decelerated to idle
C5_Witness ==
    /\ StopOfRun
    /\ ~obs.failed
    /\ world.count >= 1
    /\ obs.ticks = world.count
    /\ Idle

\* the step at hand is a tick of the timing source
IsTick == obs'.ticks = obs.ticks + 1

\* C6: a tick leaves a relative target that holds a sentinel as it is, and
\* is_moving stays true; it changes any other non-zero relative target by
\* minus the direction when its step succeeds.
C6_SentinelKept ==
    [][IsTick =>
        /\ IsSentinel(relative_target_position)
             => /\ relative_target_position' = relative_target_position
                /\ stepper_motion_controller_is_moving(State)'
        /\ (/\ ~IsSentinel(relative_target_position)
            /\ relative_target_position # 0
            /\ nfail' = nfail)
             => relative_target_position' = relative_target_position - direction]_vars

\* an infinite run has ticked as often as the model lets it
C6_Witness ==
    /\ obs.op = "run"
    /\ obs.ticks = MaxTicks
    /\ ~obs.failed
    /\ relative_target_position = INT32_MIN

\* C7: move_by with no ramp bound returns -EINVAL and leaves the direction,
\* the relative target and the timer as they were, and emits no event.
C7_NoRamp ==
    (obs.op = "move_by" /\ obs.ramp = "NULL" /\ obs.ticks = 0)
    => /\ obs.ret = -EINVAL
       /\ direction = obs.dir
       /\ current_direction = obs.dir
       /\ relative_target_position = obs.rt
       /\ (timing_interval > 0) = obs.armed
       /\ world.events = <<>>

\* move_by has been called with no ramp bound
C7_Witness ==
    /\ obs.op = "move_by"
    /\ obs.ramp = "NULL"
    /\ obs.arg = -MaxMove
    /\ obs.ret = -EINVAL

\* the call at hand is a move_by(n), n # 0, made in cruise against the
\* direction of the motion, and every step since has succeeded
Reversal ==
    /\ obs.op = "move_by"
    /\ obs.armed
    /\ obs.cruise
    /\ obs.arg # 0
    /\ SIGN(obs.arg) # obs.dir
    /\ ~obs.failed

\* the steps made since the last call in the direction held at the call, and
\* against it
StepsOn == IF obs.dir = STEPPER_DIRECTION_POSITIVE THEN world.fwd ELSE world.bwd

StepsBack == IF obs.dir = STEPPER_DIRECTION_POSITIVE THEN world.bwd ELSE world.fwd

\* the steps a reversal makes before it turns: the deceleration steps that
\* prepare_stop reported, or the one step of the tick that was armed
TurnSteps == IF world.count >= 1 THEN world.count ELSE 1

ReversalScenario ==
    /\ obs.op = "move_by"
    /\ obs.armed
    /\ obs.cruise
    /\ obs.leg.arg >= 1
    /\ obs.arg = -obs.leg.arg
    /\ ~obs.failed

\* C9 as stated: in the scenario the position, counted from where move_by(+N)
\* was called, is 0 once the motor is idle again.
C9_BackAtOrigin == (ReversalScenario /\ Idle) => obs.leg.moved + Moved = 0

\* C9, amended: in the scenario the position, once the motor is idle again, is
\* the position at which move_by(-N) was called minus N.
C9_BackByN ==
    (ReversalScenario /\ Idle)
    => /\ obs.leg.moved >= 1
       /\ obs.leg.moved + Moved = obs.leg.moved - obs.leg.arg

\* the scenario has come to rest after a deceleration of at least one step
C9_Witness ==
    /\ ReversalScenario
    /\ Idle
    /\ world.count >= 1
    /\ obs.leg.arg = MaxMove

\* the steps the bound ramp has planned and not yet handed out
RampStepsLeft ==
    IF ramp = "constant"
    THEN constant_data.steps_left
    ELSE trapezoidal_data.pre_decel_steps_left + trapezoidal_data.accel_steps_left
           + trapezoidal_data.run_steps_left + trapezoidal_data.decel_steps_left

\* C10: right after a move_by(n), n # 0, made while the motor moves in the
\* direction of n, the ramp has planned |n| steps, the first of them armed on
\* the timer and the others left in the ramp.
C10_PlanReplaced ==
    (/\ obs.op = "move_by"
     /\ obs.ramp # "NULL"
     /\ obs.armed
     /\ obs.arg # 0
     /\ SIGN(obs.arg) = obs.dir
     /\ obs.ticks = 0)
    => /\ world.count = abs(obs.arg)
       /\ timing_interval > 0
       /\ RampStepsLeft = abs(obs.arg) - 1

\* C11: move_by(0) with a ramp bound completes at once: STEPS_COMPLETED is
\* emitted during the call, no tick fires and no step is made after it, and the
\* controller is idle.
C11_MoveByZero ==
    (obs.op = "move_by" /\ obs.ramp # "NULL" /\ obs.arg = 0)
    => /\ world.events # <<>>
       /\ world.events[1] = STEPPER_EVENT_STEPS_COMPLETED
       /\ obs.ticks = 0
       /\ Stepped = 0
       /\ Idle

\* C11 from rest
C11_MoveByZeroFromRest ==
    (obs.op = "move_by" /\ obs.ramp # "NULL" /\ obs.arg = 0 /\ obs.rest)
    => /\ world.events = <<STEPPER_EVENT_STEPS_COMPLETED>>
       /\ obs.ticks = 0
       /\ Stepped = 0
       /\ Idle

\* the position counter as get_position reads it
Position == stepper_motion_controller_get_position(State)

\* C12: every tick whose step succeeds changes the position counter by the
\* direction the step was made in, and the position counter changes in no step
\* other than a tick or set_position.
C12_PositionFollowsSteps ==
    [][/\ (IsTick /\ nfail' = nfail) => Position' = Position + direction
       /\ Position' # Position => (IsTick \/ obs'.op = "set_position")]_vars

\* C13: once a move_to(p) made with a ramp bound has come to rest, all steps
\* succeeding, the position counter reads p.
C13_MoveToReaches ==
    (/\ obs.op = "move_to"
     /\ obs.ramp # "NULL"
     /\ ~obs.failed
     /\ Disarmed)
    => Position = obs.arg

\* the positive intervals get_next_interval yields from the ramp data before it
\* returns 0, counted up to fuel calls
RECURSIVE constant_intervals(_, _)
RECURSIVE trapezoidal_intervals(_, _)

constant_intervals_after(r, fuel) ==
    IF r.ret > 0 THEN 1 + constant_intervals(r.data, fuel - 1) ELSE 0

constant_intervals(data, fuel) ==
    IF fuel = 0 THEN 0 ELSE constant_intervals_after(constant_get_next_interval(data), fuel)

trapezoidal_intervals_after(r, fuel) ==
    IF r.ret > 0 THEN 1 + trapezoidal_intervals(r.data, fuel - 1) ELSE 0

trapezoidal_intervals(data, fuel) ==
    IF fuel = 0
    THEN 0
    ELSE trapezoidal_intervals_after(trapezoidal_get_next_interval(data), fuel)

\* prepare_move(N) returns N and plans N positive intervals
constant_plan_exact(r, N) == r.ret = N /\ constant_intervals(r.data, N + 1) = N

trapezoidal_plan_exact(r, N) == r.ret = N /\ trapezoidal_intervals(r.data, N + 1) = N

\* C14: in whatever state the ramps are, prepare_move(N), N >= 1, returns N and
\* get_next_interval then yields N positive intervals before it returns 0.
C14_PlanExact ==
    \A N \in 1 .. MaxMove :
        /\ constant_plan_exact(constant_prepare_move(constant_data, constant_profile, N), N)
        /\ trapezoidal_plan_exact(
               trapezoidal_prepare_move(trapezoidal_data, trapezoidal_profile, N), N)

\* C14 for the constant ramp alone
C14_ConstantPlanExact ==
    \A N \in 1 .. MaxMove :
        constant_plan_exact(constant_prepare_move(constant_data, constant_profile, N), N)

\* the call at hand is a move_by(n), n # 0, for which prepare_move(|n|) was
\* called, and every step since has succeeded
PlannedMove ==
    /\ obs.op = "move_by"
    /\ obs.ramp # "NULL"
    /\ obs.arg # 0
    /\ ~(obs.armed /\ SIGN(obs.arg) # obs.dir)
    /\ ~obs.failed

\* C15: in a move planned by prepare_move(N), get_next_interval returns 0 to
\* the controller only after N positive intervals, and only once.
C15_ZeroOnceAfterN ==
    PlannedMove
    => /\ Len(world.zeros) <= 1
       /\ \A i \in DOMAIN world.zeros : world.zeros[i] = abs(obs.arg)

\* C15 for the constant ramp alone
C15_ConstantZeroOnceAfterN == obs.ramp = "constant" => C15_ZeroOnceAfterN

\* the tick at hand is one whose hardware step fails
IsFailingTick == IsTick /\ nfail' # nfail

MathError ==
    /\ obs.op \in {"move_by", "stop"}
    /\ obs.ramp = "trapezoidal"
    /\ obs.ticks = 0
    /\ IF obs.op = "stop" \/ (obs.armed /\ SIGN(obs.arg) # obs.dir)
       THEN trapezoidal_profile.deceleration_rate = 0
       ELSE trapezoidal_profile.acceleration_rate = 0
              \/ trapezoidal_profile.deceleration_rate = 0

\* C17: when the ramp reports a math error to move_by or stop, the call leaves
\* the relative target, the direction and the timer as they were, and the
\* program goes on.
C17_FailedPlan ==
    MathError
    => /\ ~faulted
       /\ relative_target_position = obs.rt
       /\ direction = obs.dir
       /\ (timing_interval > 0) = obs.armed


\* the events the subscriber of the motion controller was handed that are
\* events of the hardware stepper
HardwareEventsDelivered ==
    SelectSeq(world.delivered, LAMBDA event : event \in HardwareEvents)

\* C18: the hardware events (STALL_DETECTED, LEFT_END_STOP_DETECTED,
\* RIGHT_END_STOP_DETECTED, FAULT_DETECTED) the underlying stepper raises are
\* delivered unchanged to the subscriber registered with the motion
\* controller's set_event_callback, alongside the controller's own events.
C18_HardwareEventsForwarded == HardwareEventsDelivered = world.raised

\* C18 as the code has it: the wrapper registers no callback with the
\* underlying stepper, so the subscriber registered with the motion
\* controller's set_event_callback is handed the controller's own events and
\* none of the hardware events the underlying stepper raises.
C18_MotionEventsOnly ==
    /\ HardwareEventsDelivered = <<>>
    /\ \A i \in DOMAIN world.delivered :
           world.delivered[i] \in {STEPPER_EVENT_STEPS_COMPLETED, STEPPER_EVENT_STOPPED}

\* a move completed and the hardware stepper raised an event: the subscriber
\* has been handed STEPS_COMPLETED and nothing else
C18_Witness ==
    /\ event_callback
    /\ obs.op = "move_by"
    /\ world.raised # <<>>
    /\ world.delivered = <<STEPPER_EVENT_STEPS_COMPLETED>>


\* C19: every finite move completes: with fair ticks, no further command and
\* no stop, every move_by(n) reaches the idle state (timer disarmed, relative
\* target 0) and STEPS_COMPLETED is emitted; the controller never stays armed
\* forever and never stays disarmed with a non-zero relative target.  A tick
\* needs the timer armed, so a state with the timer disarmed after a move_by
\* that move_by accepted lasts until the next command: in it the relative
\* target is 0 and STEPS_COMPLETED has been emitted.
C19_MoveCompletes ==
    (obs.op = "move_by" /\ obs.ret = 0 /\ ~faulted /\ Disarmed)
    => /\ relative_target_position = 0
       /\ \E i \in DOMAIN world.events :
              world.events[i] = STEPPER_EVENT_STEPS_COMPLETED


\* C20: disabling the hardware stepper cancels the in-flight motion of the
\* controller: after disable() the plan of the controller is cleared (relative
\* target 0, timer disarmed, no further tick), and the next mutator observes
\* the idle state.
C20_DisableClearsPlan ==
    (obs.op = "disable" /\ ~faulted) => (Idle /\ obs.ticks = 0)


\* C21: all controller data is guarded by the lock of the controller: every
\* access of the tick handler and of every public mutator to the relative
\* target, the direction and the ramp state happens while the lock is held, so
\* no mutator step interleaves with a tick handler step or with another
\* mutator.
C21_NoInterleaving == ~race.intruded

\* the interval the bound ramp returned last
ramp_current_interval ==
    IF ramp = "constant" THEN constant_data.interval_ns
    ELSE trapezoidal_data.current_interval

\* C22: when a mutator commits a new plan and arms the timer while a tick
\* handler is already dispatched, the committed mutator wins: the tick handler
\* re-reads the plan under the lock before arming, so the timer is never left
\* armed with an interval computed from the plan that the mutator replaced.
C22_CommittedPlanWins ==
    (race.overtaken /\ race.tick_pc = "idle" /\ timing_interval > 0)
    => timing_interval = ramp_current_interval


\* the call at hand is a move_by(n), n # 0, made with the timer armed against
\* the direction of the motion
ReversalCall ==
    /\ obs.op = "move_by"
    /\ obs.ret = 0
    /\ obs.armed
    /\ obs.arg # 0
    /\ SIGN(obs.arg) # obs.dir

\* C23, before the turn: after move_by(n) against the direction of the motion
\* with the timer armed, the call has not changed the direction, and every
\* step made until next_interval returns 0 is in the old direction.
C23_OldDirectionKept ==
    (ReversalCall /\ world.zeros = <<>>)
    => /\ direction = obs.dir
       /\ current_direction = obs.dir
       /\ StepsBack = 0

\* C23, the turn: on the tick that observes next_interval = 0, the relative
\* target is not 0, the step of that tick is still in the old direction, and
\* the tick leaves the direction set to the sign of the relative target, the
\* ramp prepared for a move of that many steps and the timer armed again.
C23_TurnOnZero ==
    [][(ReversalCall /\ IsTick /\ world.zeros = <<>> /\ world'.zeros # <<>>)
       => /\ StepsBack' = 0
          /\ relative_target_position' # 0
          /\ direction' = SIGN(relative_target_position')
          /\ current_direction' = direction'
          /\ direction' # obs.dir
          /\ world'.intervals = world.intervals + 1
          /\ timing_interval' > 0]_vars

\* C23: the reversal protocol, before the turn and at it
C23_ReversalProtocol == []C23_OldDirectionKept /\ C23_TurnOnZero

\* a reversal has turned: steps have been made in the old direction, the
\* direction is the new one and the timer is armed
C23_Witness ==
    /\ ReversalCall
    /\ world.zeros # <<>>
    /\ StepsOn > 0
    /\ direction = SIGN(obs.arg)
    /\ timing_interval > 0


\* C24: the direction changes value only where no step is scheduled: in a
\* command given with the timer disarmed (the start of a move from rest), or
\* on the tick on which the ramp returns 0, after the timer has been stopped,
\* when the move for the remaining relative target starts; it never changes
\* while the timer is armed.
C24_DirectionChange ==
    [][direction' # direction
       => \/ /\ ~IsTick
             /\ timing_interval = 0
             /\ obs'.op \in {"move_by", "move_to", "run"}
          \/ /\ IsTick
             /\ Len(world'.zeros) = Len(world.zeros) + 1
             /\ relative_target_position' # 0
             /\ direction' = SIGN(relative_target_position')]_vars

\* the direction has been turned on a tick, after a command given with the
\* timer armed, and the motor moves on
C24_Witness ==
    /\ obs.armed
    /\ obs.ticks > 0
    /\ direction # obs.dir
    /\ timing_interval > 0
    /\ relative_target_position # 0


\* the sum of the phase counters of the bound ramp
PhaseCounters ==
    IF ramp = "constant" THEN constant_data.steps_left
    ELSE IF ramp = "trapezoidal"
    THEN trapezoidal_data.pre_decel_steps_left + trapezoidal_data.accel_steps_left
         + trapezoidal_data.run_steps_left + trapezoidal_data.decel_steps_left
    ELSE 0

\* the timer has gone from armed to disarmed
JustDisarmed == timing_interval > 0 /\ timing_interval' = 0

\* C25: between ticks, whenever the timing source is armed a ramp is bound
\* and its phase counters (pre-decel + accel + run + decel; steps_left for the
\* constant ramp) sum to a positive value, and whenever the timer has just
\* been disarmed all of them are 0.
C25_CountersPositiveWhileArmed ==
    /\ [](timing_interval > 0 => (ramp # "NULL" /\ PhaseCounters > 0))
    /\ [][JustDisarmed => PhaseCounters' = 0]_vars

\* C25 as the code has it: get_next_interval takes a step off the counters
\* when it hands out the interval of that step, so while the timer is armed
\* the counters sum to the steps of the plan beyond the one that is scheduled.
\* A ramp is bound; the sum is 0 while the last step of the plan is scheduled,
\* and the tick that finds it 0 is the tick on which the ramp returns 0; when
\* the timer has just been disarmed all counters are 0.
C25_CountersBeyondScheduled ==
    /\ [](timing_interval > 0 => ramp # "NULL")
    /\ [][IsTick => (PhaseCounters = 0 <=> Len(world'.zeros) = Len(world.zeros) + 1)]_vars
    /\ [][JustDisarmed => PhaseCounters' = 0]_vars

\* the last step of a plan of several is scheduled: the timer is armed and
\* the counters are 0
C25_Witness ==
    /\ obs.op = "move_by"
    /\ abs(obs.arg) > 1
    /\ obs.ticks = abs(obs.arg) - 1
    /\ timing_interval > 0
    /\ PhaseCounters = 0


\* C26: between ticks, the current_interval of the ramp is greater than 0 if
\* and only if the controller is moving (relative target # 0), in every state
\* reached by move_by, stop and ticks.
C26_IntervalIffMoving ==
    (obs.op \in {"move_by", "stop"} /\ obs.ramp = "trapezoidal" /\ ~faulted)
    => (trapezoidal_data.current_interval > 0
            <=> stepper_motion_controller_is_moving(State))


\* the step is a prepare_move on the ramp alone
IsPrepareMove == obs'.op = "prepare_move" /\ ncmds' = ncmds + 1 /\ obs.ramp = "trapezoidal"

\* the limits prepare_move computes before it plans
StopLim ==
    avr446_acceleration_steps_needed(trapezoidal_data.current_interval,
                                     trapezoidal_profile.deceleration_rate)

AccelLim ==
    avr446_acceleration_steps_needed(trapezoidal_profile.run_interval,
                                     trapezoidal_profile.acceleration_rate)

DecelLim ==
    avr446_acceleration_steps_needed(trapezoidal_profile.run_interval,
                                     trapezoidal_profile.deceleration_rate)

\* prepare_move is called at rest or at a velocity below the requested one
SpeedUpCall ==
    /\ IsPrepareMove
    /\ \/ trapezoidal_data.current_interval = 0
       \/ trapezoidal_data.current_interval > trapezoidal_profile.run_interval

\* the counters as the speed-up case states them, in the integers
SpeedUpPlanned(data, N) ==
    /\ data.pre_decel_steps_left = 0
    /\ data.acceleration_idx = 0
    /\ IF (AccelLim - StopLim) + DecelLim >= N
       THEN /\ data.decel_steps_left =
                   (N * trapezoidal_profile.acceleration_rate)
                       \div (trapezoidal_profile.acceleration_rate
                                 + trapezoidal_profile.deceleration_rate)
            /\ data.accel_steps_left = N - data.decel_steps_left
            /\ data.run_steps_left = 0
       ELSE /\ data.decel_steps_left = DecelLim
            /\ data.accel_steps_left = AccelLim - StopLim
            /\ data.run_steps_left = N - data.accel_steps_left - data.decel_steps_left

\* no counter has wrapped around: each is a count of steps of the move
NoCounterWrapped(data, N) ==
    /\ data.pre_decel_steps_left \in 0..N
    /\ data.accel_steps_left \in 0..N
    /\ data.run_steps_left \in 0..N
    /\ data.decel_steps_left \in 0..N

CountersSum(data) ==
    data.pre_decel_steps_left + data.accel_steps_left + data.run_steps_left
        + data.decel_steps_left

\* C27: a prepare_move(N) made at rest or below the requested velocity leaves
\* pre_decel_left = 0, acceleration_idx = 0 and the accel/run/decel counters of
\* the speed-up case, none of them wrapped around, and the counters sum to N
C27_SpeedUpPlan ==
    [][SpeedUpCall =>
          /\ SpeedUpPlanned(trapezoidal_data', obs'.arg)
          /\ NoCounterWrapped(trapezoidal_data', obs'.arg)
          /\ CountersSum(trapezoidal_data') = obs'.arg]_vars


\* prepare_move is called at a velocity above the requested one
SlowDownCall ==
    /\ IsPrepareMove
    /\ trapezoidal_data.current_interval # 0
    /\ trapezoidal_data.current_interval < trapezoidal_profile.run_interval

\* C28: a prepare_move(N) made above the requested velocity leaves
\* pre_decel_left = stop_lim - decel_lim, accel_left = 0, acceleration_idx =
\* accel_lim, decel_left = decel_lim and run_left = max(0, N - pre_decel_left -
\* decel_left) with the new decel_left, whatever the previous plan left
C28_SlowDownPlan ==
    [][SlowDownCall =>
          /\ trapezoidal_data'.pre_decel_steps_left = StopLim - DecelLim
          /\ trapezoidal_data'.accel_steps_left = 0
          /\ trapezoidal_data'.acceleration_idx = AccelLim
          /\ trapezoidal_data'.decel_steps_left = DecelLim
          /\ trapezoidal_data'.run_steps_left =
                 IF obs'.arg - (StopLim - DecelLim) - DecelLim > 0
                 THEN obs'.arg - (StopLim - DecelLim) - DecelLim
                 ELSE 0]_vars


\* the step is a get_next_interval on the ramp alone
IsGetNextInterval ==
    obs'.op = "get_next_interval" /\ ncmds' = ncmds + 1 /\ obs.ramp = "trapezoidal"

\* get_next_interval makes a step of the acceleration phase
AccelStep ==
    /\ IsGetNextInterval
    /\ trapezoidal_data.pre_decel_steps_left = 0
    /\ u32_positive(trapezoidal_data.accel_steps_left)

\* C29: the first interval of the acceleration phase is
\* first_acceleration_interval and the interval of step index n >= 1 is
\* c - (2 * c + r) / (4 * n + 1), c the previous interval and r the remainder
\* of the previous division
C29_AccelRecurrence ==
    [][AccelStep =>
          trapezoidal_data'.current_interval =
              IF trapezoidal_data.acceleration_idx = 0
              THEN trapezoidal_data.first_acceleration_interval
              ELSE trapezoidal_data.current_interval
                       - ((2 * trapezoidal_data.current_interval
                               + trapezoidal_data.interval_calculation_rest)
                              \div (4 * trapezoidal_data.acceleration_idx + 1))]_vars


\* the plan in force is one prepare_move made at rest
OnePlanFromRest == obs.rest /\ obs.op \in {"prepare_move", "get_next_interval"}

\* get_next_interval makes a step of the cruise
RunStep ==
    /\ IsGetNextInterval
    /\ trapezoidal_data.pre_decel_steps_left = 0
    /\ trapezoidal_data.accel_steps_left = 0
    /\ u32_positive(trapezoidal_data.run_steps_left)

\* get_next_interval makes a step of the deceleration phase
DecelStep ==
    /\ IsGetNextInterval
    /\ trapezoidal_data.pre_decel_steps_left = 0
    /\ trapezoidal_data.accel_steps_left = 0
    /\ trapezoidal_data.run_steps_left = 0
    /\ u32_positive(trapezoidal_data.decel_steps_left)

\* C30: within a move planned at rest the interval never grows from one step of
\* the acceleration phase to the next, is run_interval at every step of the
\* cruise, and never shrinks at a step of the deceleration phase, the last one
\* included
C30_MonotonePhases ==
    [][OnePlanFromRest =>
          /\ (AccelStep /\ trapezoidal_data.current_interval # 0)
                 => trapezoidal_data'.current_interval
                        <= trapezoidal_data.current_interval
          /\ RunStep => trapezoidal_data'.current_interval
                            = trapezoidal_profile.run_interval
          /\ DecelStep => trapezoidal_data'.current_interval
                              >= trapezoidal_data.current_interval]_vars


\* get_next_interval makes the step that takes decel_steps_left to 0
LastDecelStep == DecelStep /\ trapezoidal_data.decel_steps_left = 1

\* prepare_move or prepare_stop on the ramp alone plans a deceleration phase
PlansDeceleration ==
    /\ obs'.op \in {"prepare_move", "prepare_stop"}
    /\ ncmds' = ncmds + 1
    /\ obs.ramp = "trapezoidal"
    /\ u32_positive(trapezoidal_data'.decel_steps_left)

\* C31: the step that takes decel_steps_left to 0 hands out
\* last_deceleration_interval and leaves the carried remainder 0, and a call
\* that plans a deceleration phase leaves last_deceleration_interval at c0 of
\* the deceleration rate of the profile it planned with
C31_LastDecelInterval ==
    [][/\ LastDecelStep =>
              /\ trapezoidal_data'.current_interval
                     = trapezoidal_data.last_deceleration_interval
              /\ trapezoidal_data'.interval_calculation_rest = 0
       /\ PlansDeceleration =>
              trapezoidal_data'.last_deceleration_interval
                  = StartIntervalOf[trapezoidal_profile.deceleration_rate]]_vars

\* the phase counters and the interval of the ramp
PlanOf(data) ==
    <<data.pre_decel_steps_left, data.accel_steps_left, data.run_steps_left,
      data.decel_steps_left, data.current_interval>>

\* the step is a prepare_stop on the ramp alone
IsPrepareStop == obs'.op = "prepare_stop" /\ ncmds' = ncmds + 1 /\ obs.ramp = "trapezoidal"

\* an operation the ramp cannot compute: prepare_move with an acceleration rate
\* of zero, prepare_stop with a deceleration rate of zero
CannotCompute ==
    \/ IsPrepareMove /\ trapezoidal_profile.acceleration_rate = 0
    \/ IsPrepareStop /\ trapezoidal_profile.deceleration_rate = 0

\* C32: prepare_move with acceleration_rate = 0 and prepare_stop with
\* deceleration_rate = 0 return the error -EINVAL without a fault and leave the
\* phase counters and current_interval as they were
C32_RefusesZeroRate ==
    [][CannotCompute =>
          /\ ~faulted'
          /\ obs'.ret = -EINVAL
          /\ PlanOf(trapezoidal_data') = PlanOf(trapezoidal_data)]_vars


\* r * r and (r + 1) * (r + 1) in the integers, on six limbs
IsqrtSquare(r) == u64_mul_from(r, r, 1)

IsqrtNextSquare(r) ==
    u64_mul_from(u64_add_raw(r, u64_from(1)), u64_add_raw(r, u64_from(1)), 1)

\* C33: every call isqrt(n) returns, and its result r is the floor of the
\* square root of n: r * r <= n < (r + 1) * (r + 1)
C33_IsqrtFloor ==
    obs.op = "isqrt"
    => /\ ~faulted
       /\ ~u64_lt(obs.arg, IsqrtSquare(obs.ret))
       /\ u64_lt(obs.arg, IsqrtNextSquare(obs.ret))


\* C34: no handler enters a K_SPINLOCK section of the controller lock while it
\* is inside one, no handler spins on the lock, and the lock is free whenever
\* no handler runs
C34_LockNeverReacquired == ~race.nested /\ ~race.hung /\ race.depth = 0


\* the step is an API call or a tick in which the controller emits
\* STEPS_COMPLETED, the one event it emits
EmitsStepsCompleted ==
    \/ IsTick /\ Len(world'.events) > Len(world.events)
    \/ ncmds' = ncmds + 1 /\ world'.events # <<>>

\* C35: whenever STEPS_COMPLETED is emitted the relative target is 0 and the
\* timing source is disarmed, so that no tick follows the event
C35_CompletedMeansComplete ==
    [][EmitsStepsCompleted =>
          /\ relative_target_position' = 0
          /\ timing_interval' = 0]_vars


\* C36: after a move_by(n) with finite n that returned 0, made in any state,
\* once the controller is idle with every step made, the steps the hardware
\* made since the call sum to n
C36_SelfCorrectingTarget ==
    (/\ obs.op = "move_by"
     /\ obs.ret = 0
     /\ ~obs.failed
     /\ ~faulted
     /\ Idle)
    => Moved = obs.arg


\* a move_by against a motion under way is complete: the hardware made steps
\* in the old direction first and steps in the new one then
C36_Witness ==
    /\ obs.op = "move_by"
    /\ obs.ret = 0
    /\ ~obs.failed
    /\ ~faulted
    /\ Idle
    /\ obs.armed
    /\ obs.dir # SIGN(obs.arg)
    /\ obs.arg # 0
    /\ world.fwd > 0
    /\ world.bwd > 0
    /\ Moved = obs.arg


\* the call at hand is a stop() made while the timer was armed for the
\* deceleration of a reversal: the relative target pointed against the
\* direction of travel
StopDuringReversal ==
    /\ obs.op = "stop"
    /\ obs.armed
    /\ obs.rt # 0
    /\ SIGN(obs.rt) # obs.dir

\* C37: stop() cancels a queued reversal.  After a stop() made while the motor
\* decelerates for a pending move in the opposite direction, the direction
\* stays the one held at the call, every step is made in it, and the relative
\* target never points the other way again; when all steps succeed the motor
\* makes at most the D steps prepare_stop reported, the timer is armed until
\* the D-th and the controller is idle after it.
C37_StopCancelsReversal ==
    StopDuringReversal
    => /\ direction = obs.dir
       /\ Moved = obs.dir * Stepped
       /\ relative_target_position * obs.dir >= 0
       /\ ~obs.failed
          => /\ Stepped <= world.count
             /\ Stepped = world.count => Idle
             /\ Stepped < world.count => timing_interval > 0

\* a stop() made on the trapezoidal ramp while it decelerated for a run queued
\* in the opposite direction has made its deceleration steps and come to rest
C37_Witness ==
    /\ StopDuringReversal
    /\ ~obs.failed
    /\ IsSentinel(obs.rt)
    /\ obs.ramp = "trapezoidal"
    /\ world.count >= 1
    /\ Stepped = world.count
    /\ Idle


\* the step at hand is a call of stop()
StopCalled == Stop \/ StopNullRamp

\* C38: stop() is safe in every controller state.  Called when the controller
\* is idle, or before any ramp has been bound with set_ramp, it returns
\* without faulting, no step is made, and the controller is idle afterwards
\* (relative target 0, timer disarmed).
C38_StopIsSafe ==
    [][(StopCalled /\ (Idle \/ ramp = "NULL"))
       => /\ ~faulted'
          /\ obs'.op = "stop"
          /\ world'.fwd + world'.bwd = 0
          /\ relative_target_position' = 0
          /\ timing_interval' = 0]_vars


\* prepare_move is called at the requested velocity
AtSpeedCall ==
    /\ IsPrepareMove
    /\ trapezoidal_data.current_interval = trapezoidal_profile.run_interval

\* the four phase counters
FourCounters(data) ==
    <<data.pre_decel_steps_left, data.accel_steps_left, data.run_steps_left,
      data.decel_steps_left>>

\* data with the phase counters of no plan
Unplanned(data) ==
    [data EXCEPT !.pre_decel_steps_left = 0, !.accel_steps_left = 0,
                 !.run_steps_left = 0, !.decel_steps_left = 0]

\* C39: prepare_move(N) called while cruising at the target speed
\* (current_interval = run_interval) assigns all four phase counters from N and
\* the profile: they are what the call leaves when no plan came before it, and
\* no counter keeps a value of the previous plan.
C39_PlanAtSpeed ==
    [][AtSpeedCall =>
          FourCounters(trapezoidal_data')
              = FourCounters(trapezoidal_prepare_move(
                                  Unplanned(trapezoidal_data), trapezoidal_profile,
                                  obs'.arg).data)]_vars


\* C40: the trapezoidal ramp never exceeds the target speed.  In a move planned
\* at rest, every interval get_next_interval returns at a step of the
\* acceleration phase is at least the run_interval of the profile.
C40_NeverFasterThanTarget ==
    [][(OnePlanFromRest /\ AccelStep)
       => trapezoidal_data'.current_interval >= trapezoidal_profile.run_interval]_vars

=============================================================================
